---- MODULE Spec2Model ----
(***************************************************************************)
(* Model of the DineMate preference-aggregation and recommendation core:   *)
(*   - GroupPreferences (app/models/group_preferences.py) and the service  *)
(*     helper that seeds a profile from a user                              *)
(*     (app/services/group_preference_service.py);                         *)
(*   - AdvancedRecommendationEngine (app/services/recommendation_engine.py)*)
(*   - LangGraphAnalyzer (llm_service/langgraph_analyzer.py).               *)
(* Each part has its own specification over its own variables; the         *)
(* variables of the other parts stay at their initial value.               *)
(***************************************************************************)
EXTENDS Integers, Sequences, FiniteSets, TLC

VARIABLES
    gp,              \* the GroupPreferences document of one group
    searchParams,    \* what get_aggregated_foursquare_params returned last
    candidates,      \* the scored list handed to _apply_diversity_filter
    recommendations, \* the list _apply_diversity_filter returned
    filtered,        \* TRUE once _apply_diversity_filter has returned
    scoreInput,      \* arguments of _calculate_comprehensive_score
    scoreOutcome,    \* what _calculate_comprehensive_score returned or raised
    wfNode,          \* the workflow node analyze_message is at
    wfState,         \* the MessageAnalysisState of the running workflow
    stagesRun,       \* the nodes the workflow has run, in order
    raisedBy,        \* the node whose exception left workflow.ainvoke, or ""
    analysisResult,  \* what analyze_message returned to its caller, or raised
    db,              \* the group_preferences collection: documents of one group id
    uniqueIndex,     \* TRUE when the collection's group_id index is unique
    joins,           \* per user: the create_or_update_group_preferences call
    updates,         \* per message: the _update_user_preferences_from_analysis call
    kwRequest,       \* arguments of get_llm_aggregated_recommendation_keywords
    kwOutcome,       \* what get_llm_aggregated_recommendation_keywords returned or raised
    extraction,      \* the results of two foursquare_parameter_extractor calls
    rankInput,       \* arguments of generate_recommendations' scoring and sort
    ranking,         \* the sorted list generate_recommendations built
    group,           \* the Group document of the groups collection
    requests         \* the join_group and leave_group calls on the group

gpVars == <<gp, searchParams>>
filterVars == <<candidates, recommendations, filtered>>
scoreVars == <<scoreInput, scoreOutcome>>
analysisVars == <<wfNode, wfState, stagesRun, raisedBy, analysisResult>>
serviceVars == <<db, uniqueIndex, joins, updates>>
keywordVars == <<kwRequest, kwOutcome>>
extractVars == <<extraction>>
rankVars == <<rankInput, ranking>>
groupVars == <<group, requests>>
vars == <<gp, searchParams, candidates, recommendations, filtered,
          scoreInput, scoreOutcome, wfNode, wfState, stagesRun, raisedBy,
          analysisResult, db, uniqueIndex, joins, updates, kwRequest, kwOutcome,
          extraction, rankInput, ranking, group, requests>>

\* The parts a specification does not exercise stay as constructed
NotScored == [kind |-> "none", score |-> 0]
NotAnalyzed == [kind |-> "none"]

IdleFilter == candidates = <<>> /\ recommendations = <<>> /\ filtered = FALSE
IdleScore == scoreInput = <<>> /\ scoreOutcome = NotScored
IdleAnalysis ==
    /\ wfNode = "idle"
    /\ wfState = <<>>
    /\ stagesRun = <<>>
    /\ raisedBy = ""
    /\ analysisResult = NotAnalyzed
IdleService == db = <<>> /\ uniqueIndex = FALSE /\ joins = <<>> /\ updates = <<>>
IdleKeywords == kwRequest = <<>> /\ kwOutcome = [kind |-> "none"]
IdleExtract == extraction = <<>>
IdleRank == rankInput = <<>> /\ ranking = [called |-> FALSE, list |-> <<>>]
IdleGroup == group = [exists |-> FALSE, member_ids |-> <<>>] /\ requests = <<>>
IdleOthers == IdleService /\ IdleKeywords /\ IdleExtract /\ IdleRank /\ IdleGroup

(***************************************************************************)
(* Bounds of the model                                                     *)
(***************************************************************************)
MaxUsers == 2            \* firebase uids are 1..MaxUsers
MaxInteractions == 1     \* cap on total_group_interactions
MaxCategories == 6       \* category ids one message can contribute

Users == 1..MaxUsers

(***************************************************************************)
(* Generic helpers                                                         *)
(***************************************************************************)
Range(s) == {s[i] : i \in DOMAIN s}

Count(s, x) == Cardinality({i \in DOMAIN s : s[i] = x})

\* dict of counts built by d[x] = d.get(x, 0) + 1 over a list
Frequency(s) == [x \in Range(s) |-> Count(s, x)]

\* list.append(x) guarded by "if x not in list"
AppendIfAbsent(s, x) == IF x \in Range(s) THEN s ELSE Append(s, x)

RECURSIVE ExtendIfAbsent(_, _)
ExtendIfAbsent(s, xs) ==
    IF xs = <<>> THEN s ELSE ExtendIfAbsent(AppendIfAbsent(s, Head(xs)), Tail(xs))

\* Every list that list(set(X)) can be for a set X of str: the iteration order
\* of a set of strings depends on the per-process hash seed.
RECURSIVE Orders(_)
Orders(S) ==
    IF S = {} THEN {<<>>}
    ELSE UNION {{<<x>> \o p : p \in Orders(S \ {x})} : x \in S}

Prefix(s, n) == SubSeq(s, 1, IF Len(s) < n THEN Len(s) ELSE n)

(***************************************************************************)
(* Member preferences (the values of member_contributions)                 *)
(***************************************************************************)
\* A key that the dict does not hold
Absent == "<absent>"

NoLearned == [queries |-> <<>>, categories |-> <<>>, price_range |-> [min |-> 0, max |-> 0]]

\* user.preferences or {}: the onboarding dictionaries a user can have.
\* A list-valued key that is missing reads like the empty list everywhere.
EmptyPrefs ==
    [preferred_cuisines |-> <<>>, dietary_restrictions |-> <<>>,
     spice_tolerance |-> Absent, dining_style |-> <<>>,
     budget_preference |-> Absent, learned_from_chat |-> NoLearned]

UserPreferences ==
    { EmptyPrefs,
      [EmptyPrefs EXCEPT !.preferred_cuisines = <<"thai">>,
                         !.spice_tolerance = "medium",
                         !.budget_preference = "budget"],
      [EmptyPrefs EXCEPT !.preferred_cuisines = <<"thai", "italian">>,
                         !.dietary_restrictions = <<"vegan">>,
                         !.spice_tolerance = "spicy",
                         !.budget_preference = "moderate"],
      [EmptyPrefs EXCEPT !.dining_style = <<"casual">>,
                         !.spice_tolerance = "medium",
                         !.budget_preference = "upscale"] }

(***************************************************************************)
(* Analysis results handed to update_from_llm_message                      *)
(*   query "" and price 0 stand for a parameter that was not extracted     *)
(***************************************************************************)
NoParams == [query |-> "", fsq_category_ids |-> <<>>, min_price |-> 0, max_price |-> 0]

AnalysisResults ==
    { [api_ready |-> FALSE, overall_relevance |-> 0, foursquare_parameters |-> NoParams],
      [api_ready |-> TRUE, overall_relevance |-> 80,
       foursquare_parameters |-> [query |-> "thai", fsq_category_ids |-> <<"13352">>,
                                  min_price |-> 1, max_price |-> 2]],
      [api_ready |-> TRUE, overall_relevance |-> 90,
       foursquare_parameters |-> [query |-> "pizza", fsq_category_ids |-> <<"13064">>,
                                  min_price |-> 0, max_price |-> 0]],
      [api_ready |-> TRUE, overall_relevance |-> 70,
       foursquare_parameters |-> [NoParams EXCEPT !.min_price = 4, !.max_price = 4]] }

(***************************************************************************)
(* GroupPreferences                                                        *)
(***************************************************************************)
\* member_contributions is a dict: a list of (key, value) in insertion order
Keys(mc) == {mc[i].uid : i \in DOMAIN mc}

IndexOf(mc, uid) == CHOOSE i \in DOMAIN mc : mc[i].uid = uid

Get(mc, uid) == mc[IndexOf(mc, uid)].prefs

\* d[uid] = prefs: an existing key keeps its place, a new key goes last
Put(mc, uid, prefs) ==
    IF uid \in Keys(mc)
    THEN [mc EXCEPT ![IndexOf(mc, uid)] = [uid |-> uid, prefs |-> prefs]]
    ELSE Append(mc, [uid |-> uid, prefs |-> prefs])

\* del d[uid]
Del(mc, uid) ==
    LET k == IndexOf(mc, uid)
    IN  SubSeq(mc, 1, k - 1) \o SubSeq(mc, k + 1, Len(mc))

\* GroupPreferences(group_id=..., last_updated_by="group_creation")
\* extracted_queries and extracted_categories hold the set that
\* _aggregate_member_preferences turns into a list: the list's order is drawn
\* where the list is read (ExtractedQueriesLists, ExtractedCategoriesLists).
NewGroupPreferences ==
    [extracted_queries |-> {}, extracted_categories |-> {},
     price_preferences |-> [min_price |-> 0, max_price |-> 0],
     location_preferences |-> <<>>, open_now |-> FALSE, sort_preferences |-> <<>>,
     member_contributions |-> <<>>, member_count |-> 0,
     query_frequency |-> Frequency(<<>>), category_frequency |-> Frequency(<<>>),
     is_llm_updated |-> FALSE, last_updated_by |-> <<"group_creation", 0>>,
     llm_confidence_score |-> 0, total_group_interactions |-> 0,
     foursquare_param_count |-> 0]

\* What one member adds to all_queries, in the order of the loop body
MemberQueries(p) ==
    p.preferred_cuisines
    \o p.dietary_restrictions
    \o (IF p.spice_tolerance # Absent /\ p.spice_tolerance # "medium"
        THEN <<p.spice_tolerance>> ELSE <<>>)
    \o p.dining_style
    \o p.learned_from_chat.queries

MemberCategories(p) == p.learned_from_chat.categories

\* budget tier -> price bucket
BudgetRange(budget) ==
    IF budget = "budget" THEN <<[min |-> 1, max |-> 2]>>
    ELSE IF budget = "moderate" THEN <<[min |-> 2, max |-> 3]>>
    ELSE IF budget = "upscale" THEN <<[min |-> 3, max |-> 4]>>
    ELSE <<>>

\* "price_range" in learned: the key is only ever written with a truthy bound
HasPriceRange(learned) == learned.price_range.min # 0 \/ learned.price_range.max # 0

MemberPriceRanges(p) ==
    BudgetRange(p.budget_preference)
    \o (IF HasPriceRange(p.learned_from_chat)
        THEN <<p.learned_from_chat.price_range>> ELSE <<>>)

RECURSIVE AllQueries(_)
AllQueries(mc) ==
    IF mc = <<>> THEN <<>> ELSE MemberQueries(Head(mc).prefs) \o AllQueries(Tail(mc))

RECURSIVE AllCategories(_)
AllCategories(mc) ==
    IF mc = <<>> THEN <<>> ELSE MemberCategories(Head(mc).prefs) \o AllCategories(Tail(mc))

\* price_ranges overwritten by each member instead of extended
PriceRangesLastMember(mc) ==
    IF mc = <<>> THEN <<>> ELSE MemberPriceRanges(mc[Len(mc)].prefs)

RECURSIVE PriceRanges(_)
PriceRanges(mc) ==
    IF mc = <<>> THEN <<>> ELSE MemberPriceRanges(Head(mc).prefs) \o PriceRanges(Tail(mc))

\* [p.get(k) for p in price_ranges if p.get(k)]
MinPrices(ranges) == SelectSeq([i \in DOMAIN ranges |-> ranges[i].min], LAMBDA v : v # 0)
MaxPrices(ranges) == SelectSeq([i \in DOMAIN ranges |-> ranges[i].max], LAMBDA v : v # 0)

\* the first price of the list instead of the most frequent one
FirstPrice(prices) == prices[1]

\* the most frequent price, a tie going to the price met first in the list
FirstEncountered(prices) ==
    prices[CHOOSE i \in DOMAIN prices :
               /\ \A w \in Range(prices) : Count(prices, w) <= Count(prices, prices[i])
               /\ \A j \in 1..(i - 1) : Count(prices, prices[j]) < Count(prices, prices[i])]

\* max(set(prices), key=prices.count) on a non-empty list of price levels:
\* a set of small ints is iterated in ascending order and max() keeps the
\* first of the values with the highest count.
MostCommon(prices) ==
    CHOOSE v \in Range(prices) :
        \A w \in Range(prices) :
            \/ Count(prices, w) < Count(prices, v)
            \/ Count(prices, w) = Count(prices, v) /\ v <= w

Consensus(prices) == IF prices = <<>> THEN 0 ELSE MostCommon(prices)

\* len([v for v in [queries, categories, min_price, max_price] if v])
ParamCount(queries, categories, prices) ==
    (IF queries # {} THEN 1 ELSE 0) + (IF categories # {} THEN 1 ELSE 0)
    + (IF prices.min_price # 0 THEN 1 ELSE 0) + (IF prices.max_price # 0 THEN 1 ELSE 0)

\* _aggregate_member_preferences
AggregateMemberPreferences(g) ==
    LET all_queries == AllQueries(g.member_contributions)
        all_categories == AllCategories(g.member_contributions)
        price_ranges == PriceRanges(g.member_contributions)
        prices == [min_price |-> Consensus(MinPrices(price_ranges)),
                   max_price |-> Consensus(MaxPrices(price_ranges))]
    IN  [g EXCEPT !.query_frequency = Frequency(all_queries),
                  !.category_frequency = Frequency(all_categories),
                  !.extracted_queries = Range(all_queries),
                  !.extracted_categories = Range(all_categories),
                  !.price_preferences = prices,
                  !.foursquare_param_count =
                      ParamCount(Range(all_queries), Range(all_categories), prices)]

\* add_member_preferences
AddMemberPreferences(g, uid, prefs) ==
    LET mc == Put(g.member_contributions, uid, prefs)
        h == AggregateMemberPreferences(
                 [g EXCEPT !.member_contributions = mc, !.member_count = Len(mc)])
    IN  [h EXCEPT !.last_updated_by = <<"member_join", uid>>]

\* remove_member_preferences
RemoveMemberPreferences(g, uid) ==
    IF uid \in Keys(g.member_contributions)
    THEN LET mc == Del(g.member_contributions, uid)
             h == AggregateMemberPreferences(
                      [g EXCEPT !.member_contributions = mc, !.member_count = Len(mc)])
         IN  [h EXCEPT !.last_updated_by = <<"member_leave", uid>>]
    ELSE g

\* the learned price range stored with its bounds exchanged
LearnSwapped(learned, params) ==
    [queries |-> IF params.query # ""
                 THEN AppendIfAbsent(learned.queries, params.query)
                 ELSE learned.queries,
     categories |-> ExtendIfAbsent(learned.categories, params.fsq_category_ids),
     price_range |-> IF params.min_price # 0 \/ params.max_price # 0
                     THEN [min |-> params.max_price, max |-> params.min_price]
                     ELSE learned.price_range]

\* The learned preferences of update_from_llm_message after the three updates
LearnFrom(learned, params) ==
    [queries |-> IF params.query # ""
                 THEN AppendIfAbsent(learned.queries, params.query)
                 ELSE learned.queries,
     categories |-> ExtendIfAbsent(learned.categories, params.fsq_category_ids),
     price_range |-> IF params.min_price # 0 \/ params.max_price # 0
                     THEN [min |-> params.min_price, max |-> params.max_price]
                     ELSE learned.price_range]

\* update_from_llm_message without the early return on api_ready
UpdateIgnoringReady(g, uid, analysis_result) ==
    LET params == analysis_result.foursquare_parameters
        member_prefs == IF uid \in Keys(g.member_contributions)
                        THEN Get(g.member_contributions, uid)
                        ELSE EmptyPrefs
        updated == [member_prefs EXCEPT
                       !.learned_from_chat = LearnFrom(@, params)]
        mc == Put(g.member_contributions, uid, updated)
        h == AggregateMemberPreferences([g EXCEPT !.member_contributions = mc])
    IN  [h EXCEPT !.is_llm_updated = TRUE,
                  !.llm_confidence_score = analysis_result.overall_relevance,
                  !.total_group_interactions = @ + 1,
                  !.last_updated_by = <<"llm_message", uid>>]

\* update_from_llm_message
UpdateFromLlmMessage(g, uid, analysis_result) ==
    IF ~analysis_result.api_ready THEN g
    ELSE
        LET params == analysis_result.foursquare_parameters
            member_prefs == IF uid \in Keys(g.member_contributions)
                            THEN Get(g.member_contributions, uid)
                            ELSE EmptyPrefs
            updated == [member_prefs EXCEPT
                           !.learned_from_chat = LearnFrom(@, params)]
            mc == Put(g.member_contributions, uid, updated)
            h == AggregateMemberPreferences([g EXCEPT !.member_contributions = mc])
        IN  [h EXCEPT !.is_llm_updated = TRUE,
                      !.llm_confidence_score = analysis_result.overall_relevance,
                      !.total_group_interactions = @ + 1,
                      !.last_updated_by = <<"llm_message", uid>>]

\* extracted_queries as the list the document holds
ExtractedQueriesLists(g) == Orders(g.extracted_queries)
ExtractedCategoriesLists(g) == Orders(g.extracted_categories)

\* params["query"] = self.extracted_queries[-1]
QueryParam(qs) == IF qs # <<>> THEN qs[Len(qs)] ELSE ""

\* all the extracted categories, unlimited
AllCategoryIds(cs) == cs

\* params["fsq_category_ids"] = ",".join(self.extracted_categories[:5])
FsqCategoryIdsParam(cs) == Prefix(cs, 5)

\* get_aggregated_foursquare_params: every dictionary it can return ("" and 0
\* stand for a key that is not set)
GetAggregatedFoursquareParams(g) ==
    { [query |-> QueryParam(qs),
       fsq_category_ids |-> FsqCategoryIdsParam(cs),
       min_price |-> g.price_preferences.min_price,
       max_price |-> g.price_preferences.max_price,
       near |-> IF g.location_preferences # <<>>
                THEN g.location_preferences[Len(g.location_preferences)] ELSE "",
       open_now |-> g.open_now,
       sort |-> IF g.sort_preferences # <<>>
                THEN g.sort_preferences[Len(g.sort_preferences)] ELSE ""]
      : qs \in ExtractedQueriesLists(g), cs \in ExtractedCategoriesLists(g) }

(***************************************************************************)
(* Specification of one GroupPreferences document under its operations     *)
(***************************************************************************)
NoResult == [query |-> "<none>", fsq_category_ids |-> <<>>, min_price |-> 0,
             max_price |-> 0, near |-> "", open_now |-> FALSE, sort |-> ""]

InitGroup ==
    /\ gp = NewGroupPreferences
    /\ searchParams = NoResult

AddMember ==
    \E uid \in Users, prefs \in UserPreferences :
        /\ gp' = AddMemberPreferences(gp, uid, prefs)
        /\ UNCHANGED <<searchParams, filterVars, scoreVars, analysisVars,
                     serviceVars, keywordVars, extractVars, rankVars, groupVars>>

RemoveMember ==
    \E uid \in Users :
        /\ gp' = RemoveMemberPreferences(gp, uid)
        /\ UNCHANGED <<searchParams, filterVars, scoreVars, analysisVars,
                     serviceVars, keywordVars, extractVars, rankVars, groupVars>>

UpdateFromLlm ==
    \E uid \in Users, a \in AnalysisResults :
        /\ gp.total_group_interactions < MaxInteractions
        /\ gp' = UpdateFromLlmMessage(gp, uid, a)
        /\ UNCHANGED <<searchParams, filterVars, scoreVars, analysisVars,
                     serviceVars, keywordVars, extractVars, rankVars, groupVars>>

Init == InitGroup /\ IdleFilter /\ IdleScore /\ IdleAnalysis /\ IdleOthers

Next == AddMember \/ RemoveMember \/ UpdateFromLlm

Spec == Init /\ [][Next]_vars

(***************************************************************************)
(* _initialize_foursquare_preferences_from_user (service helper)           *)
(***************************************************************************)
CuisineToCategory ==
    [c \in {"italian", "chinese", "mexican", "indian", "japanese", "thai",
            "american", "french", "korean", "mediterranean", "seafood"} |->
        CASE c = "italian" -> "13236" [] c = "chinese" -> "13099"
          [] c = "mexican" -> "13303" [] c = "indian" -> "13199"
          [] c = "japanese" -> "13263" [] c = "thai" -> "13352"
          [] c = "american" -> "13064" [] c = "french" -> "13148"
          [] c = "korean" -> "13276" [] c = "mediterranean" -> "13305"
          [] c = "seafood" -> "13338"]

BudgetPrices(current, budget) ==
    IF budget = "budget" THEN [min_price |-> 1, max_price |-> 2]
    ELSE IF budget = "moderate" THEN [min_price |-> 2, max_price |-> 3]
    ELSE IF budget = "upscale" THEN [min_price |-> 3, max_price |-> 4]
    ELSE current

\* The user's preferences never hold the keys favorite_foods and price_range
\* (the onboarding endpoint writes the five keys of EmptyPrefs only).
InitializeFoursquarePreferencesFromUser(g, user_preferences) ==
    LET cuisines == Range(Prefix(user_preferences.preferred_cuisines, 3))
        categories == g.extracted_categories
                      \cup {CuisineToCategory[c] : c \in cuisines \cap DOMAIN CuisineToCategory}
        spice == IF user_preferences.spice_tolerance \notin {Absent, "", "medium"}
                 THEN {user_preferences.spice_tolerance} ELSE {}
        queries == g.extracted_queries \cup cuisines
                   \cup Range(Prefix(user_preferences.dietary_restrictions, 2))
                   \cup spice
                   \cup Range(Prefix(user_preferences.dining_style, 2))
        prices == BudgetPrices(g.price_preferences, user_preferences.budget_preference)
        count == ParamCount(queries, categories, prices)
    IN  [g EXCEPT !.extracted_queries = queries,
                  !.extracted_categories = categories,
                  !.price_preferences = prices,
                  !.foursquare_param_count = count,
                  !.is_llm_updated = IF count > 0 THEN TRUE ELSE @,
                  !.last_updated_by = IF count > 0 THEN <<"user_initialization", 0>> ELSE @]

InitializeFromUser ==
    \E prefs \in UserPreferences :
        /\ gp' = InitializeFoursquarePreferencesFromUser(gp, prefs)
        /\ UNCHANGED <<searchParams, filterVars, scoreVars, analysisVars,
                     serviceVars, keywordVars, extractVars, rankVars, groupVars>>

\* The document under the four operations that change it
NextAllOps == AddMember \/ RemoveMember \/ UpdateFromLlm \/ InitializeFromUser

SpecAllOps == Init /\ [][NextAllOps]_vars

(***************************************************************************)
(* Specification of get_aggregated_foursquare_params on a document whose   *)
(* member learned category ids from a message                              *)
(***************************************************************************)
CategoryIds ==
    <<"13065", "13145", "13032", "13003", "13236", "13099", "13303", "13199",
      "13263", "13352", "13064", "13148", "13305", "13276", "13360", "13338",
      "13061", "13345">>

LearnCategories ==
    \E n \in 0..MaxCategories, q \in {"", "pizza"} :
        /\ gp.total_group_interactions < MaxInteractions
        /\ gp' = UpdateFromLlmMessage(gp, 1,
                     [api_ready |-> TRUE, overall_relevance |-> 80,
                      foursquare_parameters |->
                          [NoParams EXCEPT !.query = q,
                                           !.fsq_category_ids = Prefix(CategoryIds, n)]])
        /\ searchParams' = NoResult
        /\ UNCHANGED <<filterVars, scoreVars, analysisVars,
                     serviceVars, keywordVars, extractVars, rankVars, groupVars>>

GetParams ==
    /\ searchParams = NoResult
    /\ searchParams' \in GetAggregatedFoursquareParams(gp)
    /\ UNCHANGED <<gp, filterVars, scoreVars, analysisVars,
                     serviceVars, keywordVars, extractVars, rankVars, groupVars>>

NextParams == LearnCategories \/ GetParams

SpecParams == Init /\ [][NextParams]_vars

(***************************************************************************)
(* Claims on GroupPreferences                                              *)
(***************************************************************************)
AggregatedFields(g) ==
    [queries |-> g.extracted_queries, categories |-> g.extracted_categories,
     query_frequency |-> g.query_frequency, category_frequency |-> g.category_frequency,
     price_preferences |-> g.price_preferences,
     foursquare_param_count |-> g.foursquare_param_count]

\* C1: after any sequence of add_member_preferences, remove_member_preferences,
\* update_from_llm_message and _initialize_foursquare_preferences_from_user the
\* aggregated fields are what _aggregate_member_preferences computes from the
\* current member_contributions.
C1_AggregatedFromContributions ==
    AggregatedFields(gp) = AggregatedFields(AggregateMemberPreferences(gp))

\* add_member_preferences applied to a new document for each entry of a list
RECURSIVE AddAll(_, _)
AddAll(g, entries) ==
    IF entries = <<>> THEN g
    ELSE AddAll(AddMemberPreferences(g, Head(entries).uid, Head(entries).prefs),
                Tail(entries))

\* No two values are tied for the most frequent one
UniqueMode(prices) ==
    \A v, w \in Range(prices) :
        (\A x \in Range(prices) : Count(prices, x) <= Count(prices, v)
                                  /\ Count(prices, x) <= Count(prices, w)) => v = w

NoPriceTie(mc) ==
    /\ UniqueMode(MinPrices(PriceRanges(mc)))
    /\ UniqueMode(MaxPrices(PriceRanges(mc)))

Entries(g) == Range(g.member_contributions)

\* C2: the members of the document, added to a new document in any order,
\* give the aggregated fields of the document; the price consensus is
\* compared unless two prices are tied for the most frequent.
C2_OrderIndependent ==
    \A p \in Orders(Entries(gp)) :
        LET a == AggregatedFields(AddAll(NewGroupPreferences, p))
            b == AggregatedFields(gp)
        IN  /\ a.queries = b.queries
            /\ a.categories = b.categories
            /\ a.query_frequency = b.query_frequency
            /\ a.category_frequency = b.category_frequency
            /\ a.foursquare_param_count = b.foursquare_param_count
            /\ NoPriceTie(p) => a.price_preferences = b.price_preferences

\* Members with different price ranges were added, and one minimum and one
\* maximum are the most frequent
C2_Witness ==
    /\ Len(gp.member_contributions) >= 2
    /\ Cardinality(Range(MinPrices(PriceRanges(gp.member_contributions)))) >= 2
    /\ NoPriceTie(gp.member_contributions)
    /\ gp.last_updated_by[1] = "member_join"

RemoveThenAdd(g, uid) ==
    AddMemberPreferences(RemoveMemberPreferences(g, uid), uid,
                         Get(g.member_contributions, uid))

\* C3: removing a member and adding it again with the identical preferences
\* restores the aggregated fields and member_count.
C3_RemoveAddRestores ==
    \A uid \in Keys(gp.member_contributions) :
        /\ AggregatedFields(RemoveThenAdd(gp, uid)) = AggregatedFields(gp)
        /\ RemoveThenAdd(gp, uid).member_count = gp.member_count

\* The queries get_aggregated_foursquare_params can return for a document
ReturnedQueries(g) == {QueryParam(qs) : qs \in ExtractedQueriesLists(g)}

\* C4: when an operation has added query terms to the profile, the query
\* that get_aggregated_foursquare_params returns is one of the terms just added.
C4_QueryIsMostRecentTerm ==
    [][(gp'.extracted_queries \ gp.extracted_queries) # {}
         => ReturnedQueries(gp') \subseteq (gp'.extracted_queries \ gp.extracted_queries)]_vars

\* C5: get_aggregated_foursquare_params returns at most 5 category ids.
C5_AtMostFiveCategories ==
    searchParams # NoResult => Len(searchParams.fsq_category_ids) <= 5

\* The members contributed more than 5 category ids and 5 were returned
C5_Witness ==
    /\ searchParams # NoResult
    /\ Cardinality(gp.extracted_categories) > 5
    /\ Len(searchParams.fsq_category_ids) = 5

(***************************************************************************)
(* AdvancedRecommendationEngine._apply_diversity_filter                    *)
(* A scored entry is [restaurant, score]; a restaurant carries the fields   *)
(* the filter reads: fsq_id, cuisine_types, price (0 when absent).         *)
(* Scores are in hundredths.                                               *)
(***************************************************************************)
MaxCandidates == 22      \* longest candidate list handed to the filter

\* tuple(sorted(restaurant.cuisine_types[:2])): two such tuples are equal
\* exactly when the first two cuisines are the same up to their order
CuisineKey(restaurant) ==
    LET primary == Prefix(restaurant.cuisine_types, 2)
    IN  <<Len(primary), Range(primary)>>

ComboKey(restaurant) == <<CuisineKey(restaurant), restaurant.price>>

\* First pass: the top scorer of each cuisine/price combination, and
\* whatever comes while fewer than 5 are chosen; stops at 15
RECURSIVE FirstPass(_, _, _)
FirstPass(scored_restaurants, diverse_list, used_cuisines) ==
    IF scored_restaurants = <<>> THEN diverse_list
    ELSE LET entry == Head(scored_restaurants)
             combo_key == ComboKey(entry.restaurant)
         IN  IF combo_key \notin used_cuisines \/ Len(diverse_list) < 5
             THEN IF Len(diverse_list) + 1 >= 15
                  THEN Append(diverse_list, entry)
                  ELSE FirstPass(Tail(scored_restaurants),
                                 Append(diverse_list, entry),
                                 used_cuisines \cup {combo_key})
             ELSE FirstPass(Tail(scored_restaurants), diverse_list, used_cuisines)

\* remaining_slots with no decrement after an entry is added
SlotsKept(remaining_slots) == remaining_slots

\* remaining_slots -= 1
SlotsAfterAdd(remaining_slots) == remaining_slots - 1

\* Second pass: the entries whose id the first pass did not choose, while
\* slots remain; added_ids is computed once, before the loop
RECURSIVE SecondPass(_, _, _, _)
SecondPass(scored_restaurants, diverse_list, remaining_slots, added_ids) ==
    IF scored_restaurants = <<>> THEN diverse_list
    ELSE LET entry == Head(scored_restaurants)
         IN  IF entry.restaurant.fsq_id \notin added_ids /\ remaining_slots > 0
             THEN SecondPass(Tail(scored_restaurants), Append(diverse_list, entry),
                             SlotsAfterAdd(remaining_slots), added_ids)
             ELSE SecondPass(Tail(scored_restaurants), diverse_list,
                             remaining_slots, added_ids)

\* list.sort(key=score, reverse=True): stable, equal scores keep their order
RECURSIVE InsertByScore(_, _)
InsertByScore(sorted, entry) ==
    IF sorted = <<>> THEN <<entry>>
    ELSE IF Head(sorted).score >= entry.score
         THEN <<Head(sorted)>> \o InsertByScore(Tail(sorted), entry)
         ELSE <<entry>> \o sorted

RECURSIVE SortByScore(_)
SortByScore(list) ==
    IF list = <<>> THEN <<>>
    ELSE InsertByScore(SortByScore(Prefix(list, Len(list) - 1)), list[Len(list)])

ApplyDiversityFilter(scored_restaurants) ==
    IF Len(scored_restaurants) <= 10 THEN scored_restaurants
    ELSE LET first == FirstPass(scored_restaurants, <<>>, {})
             added_ids == {first[i].restaurant.fsq_id : i \in 1..Len(first)}
         IN  SortByScore(SecondPass(scored_restaurants, first,
                                    20 - Len(first), added_ids))

\* Candidate lists: n entries by descending score (equal in pairs), of
\* `kinds` different cuisine/price kinds, with ids repeating every `period`
\* entries (period 0: all ids differ)
CuisineLists ==
    << <<"italian">>, <<"thai", "asian">>, <<"asian", "thai", "fusion">>,
       <<>>, <<"pizza", "italian">> >>

KindCounts == {1, 3, 16, 25}
IdPeriods == {0, 4, 12}

RestaurantOf(id, kinds) ==
    LET kind == id % kinds
    IN  [fsq_id |-> id,
         cuisine_types |-> CuisineLists[(kind % 5) + 1],
         price |-> (kind \div 5) % 5]

CandidateList(n, kinds, period) ==
    [i \in 1..n |->
        [restaurant |-> RestaurantOf(IF period = 0 THEN i ELSE i % period, kinds),
         score |-> 100 - 3 * ((i - 1) \div 2)]]

InitFilter ==
    /\ \E n \in 0..MaxCandidates, kinds \in KindCounts, period \in IdPeriods :
           candidates = CandidateList(n, kinds, period)
    /\ recommendations = <<>>
    /\ filtered = FALSE

DiversityFilter ==
    /\ ~filtered
    /\ recommendations' = ApplyDiversityFilter(candidates)
    /\ filtered' = TRUE
    /\ UNCHANGED <<candidates, gpVars, scoreVars, analysisVars,
                     serviceVars, keywordVars, extractVars, rankVars, groupVars>>

InitDiversity == InitGroup /\ InitFilter /\ IdleScore /\ IdleAnalysis /\ IdleOthers

SpecDiversity == InitDiversity /\ [][DiversityFilter]_vars

FsqIds(list) == [i \in 1..Len(list) |-> list[i].restaurant.fsq_id]

\* C7: the list _apply_diversity_filter returns has at most 20 entries and
\* at most as many entries as its input.
C7_OutputBounded ==
    filtered => /\ Len(recommendations) <= 20
                /\ Len(recommendations) <= Len(candidates)

\* More than 20 candidates went in and 20 came out, 15 or fewer of them
\* from the first pass
C7_Witness ==
    /\ filtered
    /\ Len(candidates) > 20
    /\ Len(recommendations) = 20
    /\ Len(FirstPass(candidates, <<>>, {})) <= 15

\* C8: the list _apply_diversity_filter returns holds no two entries with
\* the same fsq_id.
C8_NoDuplicateIds ==
    filtered => \A i, j \in 1..Len(recommendations) :
                    i # j => FsqIds(recommendations)[i] # FsqIds(recommendations)[j]

(***************************************************************************)
(* AdvancedRecommendationEngine._calculate_comprehensive_score             *)
(* Floats are fixed-point numbers in units of 1/One.  Absent optional       *)
(* fields are 0 or the empty list, which the code's truth tests treat like  *)
(* None.  Cuisine and dietary tags are lower case already.                  *)
(***************************************************************************)
One == 10000             \* the float 1.0
MaxProfiles == 2         \* most member profiles in one call

Min2(a, b) == IF a <= b THEN a ELSE b
Max2(a, b) == IF a >= b THEN a ELSE b
Abs(x) == IF x < 0 THEN 0 - x ELSE x

RECURSIVE Sum(_)
Sum(s) == IF s = <<>> THEN 0 ELSE Head(s) + Sum(Tail(s))

RECURSIVE MaxOf(_, _)
MaxOf(start, s) == IF s = <<>> THEN start ELSE MaxOf(Max2(start, Head(s)), Tail(s))

HasDietaryOption(restaurant, dietary_restriction) ==
    dietary_restriction \in Range(restaurant.dietary_options)

ScoreGroupPreferenceMatch(restaurant, group_preferences) ==
    LET g == group_preferences
        byCuisine == g.preferred_cuisines # <<>>
        cuisine_match ==
            IF Range(restaurant.cuisine_types) \cap Range(g.preferred_cuisines) # {}
            THEN One ELSE 0
        byPrice == restaurant.price # 0 /\ g.min_price_range # 0 /\ g.max_price_range # 0
        distance == Min2(Abs(restaurant.price - g.min_price_range),
                         Abs(restaurant.price - g.max_price_range))
        price_match ==
            IF g.min_price_range <= restaurant.price /\ restaurant.price <= g.max_price_range
            THEN One ELSE Max2(0, One - distance * 3000)
        byDietary == g.dietary_restrictions # <<>>
        compliance_score ==
            (One * Cardinality({i \in 1..Len(g.dietary_restrictions) :
                                  HasDietaryOption(restaurant, g.dietary_restrictions[i])}))
                \div Max2(1, Len(g.dietary_restrictions))
        penalty ==
            IF Range(restaurant.cuisine_types) \cap Range(g.disliked_cuisines) # {}
            THEN 5000 ELSE 0
        score == (IF byCuisine THEN cuisine_match ELSE 0)
                 + (IF byPrice THEN price_match ELSE 0)
                 + (IF byDietary THEN compliance_score ELSE 0)
                 - penalty
        factors == (IF byCuisine THEN 1 ELSE 0) + (IF byPrice THEN 1 ELSE 0)
                   + (IF byDietary THEN 1 ELSE 0)
    IN  IF factors > 0 THEN score \div Max2(1, factors) ELSE 5000

\* profile.cuisine_preferences.get(cuisine, 0.0)
CuisinePreference(profile, cuisine) ==
    IF cuisine \in DOMAIN profile.cuisine_preferences
    THEN profile.cuisine_preferences[cuisine] ELSE 0

UserScore(restaurant, profile) ==
    LET cuisine_score ==
            MaxOf(0, [i \in 1..Len(restaurant.cuisine_types) |->
                          CuisinePreference(profile, restaurant.cuisine_types[i])])
        price_comfort ==
            One - Abs((restaurant.price * One) \div 4 - profile.price_sensitivity)
        dietary_score ==
            IF \A i \in 1..Len(profile.dietary_restrictions) :
                   HasDietaryOption(restaurant, profile.dietary_restrictions[i])
            THEN One ELSE 0
    IN  (cuisine_score * 4) \div 10
        + (IF restaurant.price # 0 THEN (Max2(0, price_comfort) * 3) \div 10 ELSE 0)
        + (dietary_score * 3) \div 10

ScoreIndividualSatisfaction(restaurant, user_profiles) ==
    IF user_profiles = <<>> THEN 5000
    ELSE LET n == Len(user_profiles)
             individual_scores == [i \in 1..n |-> UserScore(restaurant, user_profiles[i])]
             avg_satisfaction == Sum(individual_scores) \div n
             satisfaction_variance ==
                 (Sum([i \in 1..n |->
                         (individual_scores[i] - avg_satisfaction)
                         * (individual_scores[i] - avg_satisfaction)]) \div n) \div One
             harmony_bonus == Max2(0, One - satisfaction_variance)
         IN  ((avg_satisfaction + (harmony_bonus * 3) \div 10) * 10) \div 13

\* restaurant.distance or haversine_distance(user_location, restaurant.location)
ScoreLocationConvenience(restaurant, context) ==
    LET distance == IF restaurant.distance # 0 THEN restaurant.distance
                    ELSE context.haversine_distance
    IN  IF distance <= 500 THEN One
        ELSE IF distance <= 1000 THEN 9000
        ELSE IF distance <= 2000 THEN 7000
        ELSE IF distance <= 5000 THEN 5000
        ELSE 2000

TimeAppropriateness ==
    [breakfast |-> [cafe |-> 9000, american |-> 8000, french |-> 7000],
     lunch |-> [fast_food |-> 9000, american |-> 8000, italian |-> 8000, asian |-> 8000],
     dinner |-> [fine_dining |-> 9000, italian |-> 9000, french |-> 9000, indian |-> 8000],
     late_night |-> [fast_food |-> 9000, american |-> 8000, pizza |-> 9000]]

\* The keys of the time table that are substrings of a cuisine tag
KeysWithin ==
    [french |-> {"french"}, korean |-> {}, steakhouse |-> {}, thai |-> {},
     pizza |-> {"pizza"}, italian |-> {"italian"}, pan_asian |-> {"asian"}]

ScoreContextualFit(restaurant, context) ==
    LET table == IF context.time_of_day \in DOMAIN TimeAppropriateness
                 THEN TimeAppropriateness[context.time_of_day] ELSE <<>>
        hits == {table[key] : key \in
                    {k \in DOMAIN table :
                        \E c \in Range(restaurant.cuisine_types) : k \in KeysWithin[c]}}
        time_score == IF hits = {} THEN 5000
                      ELSE Max2(5000, CHOOSE v \in hits : \A w \in hits : w <= v)
        base == (5000 + time_score) \div 2
        occasion ==
            IF context.occasion = "celebration" /\ restaurant.price >= 3 THEN 2000
            ELSE IF context.occasion = "casual" /\ restaurant.price # 0 /\ restaurant.price <= 2
                 THEN 1000
            ELSE IF context.occasion = "business" /\ restaurant.rating >= 70 THEN 1500
            ELSE 0
        size ==
            IF context.group_size = 0 THEN 0
            ELSE IF context.group_size <= 2
                 THEN (IF "intimate" \in Range(restaurant.features) THEN 1000 ELSE 0)
            ELSE IF context.group_size >= 6
                 THEN (IF "large_groups" \in Range(restaurant.features) THEN 2000 ELSE 0 - 1000)
            ELSE 0
    IN  Min2(One, base + occasion + size)

\* restaurant.rating is in tenths of a point (0..100)
ScoreQualityIndicators(restaurant) ==
    LET parts == (IF restaurant.rating # 0 THEN <<restaurant.rating * 100>> ELSE <<>>)
                 \o (IF restaurant.popularity # 0 THEN <<restaurant.popularity>> ELSE <<>>)
                 \o (IF restaurant.photos # <<>> THEN <<8000>> ELSE <<>>)
                 \o (IF restaurant.reviews # <<>> THEN <<7000>> ELSE <<>>)
                 \o (IF restaurant.features # <<>>
                     THEN <<Min2(One, Len(restaurant.features) * 1000)>> ELSE <<>>)
    IN  Sum(parts) \div Max2(1, Len(parts))

UncommonCuisines == {"ethiopian", "peruvian", "moroccan", "korean", "vietnamese"}

\* created_at > utcnow() - 180 days: the record is younger than 180 days
ScoreNoveltyFactor(restaurant) ==
    LET novelty_score ==
            IF Range(restaurant.cuisine_types) \cap UncommonCuisines # {} THEN 8000 ELSE 5000
    IN  Min2(One, novelty_score + (IF restaurant.age_days < 180 THEN 2000 ELSE 0))

\* self.weights, in hundredths
Weights ==
    [group_preference_match |-> 25, individual_satisfaction |-> 20,
     location_convenience |-> 15, contextual_appropriateness |-> 15,
     quality_indicators |-> 15, novelty_factor |-> 10]

ApplyContextualAdjustments(base_score, restaurant, context) ==
    base_score
    + (IF context.urgency = "high" /\ restaurant.popularity # 0 /\ restaurant.popularity < 7000
       THEN 1000 ELSE 0)
    + (IF context.weather = "rainy" /\ "outdoor_seating" \in Range(restaurant.features)
       THEN 0 - 1000
       ELSE IF context.weather = "sunny" /\ "outdoor_seating" \in Range(restaurant.features)
            THEN 1000 ELSE 0)
    + (IF context.budget_preference = "budget" /\ restaurant.price > 2 THEN 0 - 2000
       ELSE IF context.budget_preference = "luxury" /\ restaurant.price # 0 /\ restaurant.price < 3
            THEN 0 - 1000 ELSE 0)

\* The weighted sum after the contextual adjustments, before the clamp
AdjustedScore(restaurant, context, group_preferences, user_profiles) ==
    LET scores ==
            [group_preference_match |->
                 ScoreGroupPreferenceMatch(restaurant, group_preferences),
             individual_satisfaction |->
                 ScoreIndividualSatisfaction(restaurant, user_profiles),
             location_convenience |-> ScoreLocationConvenience(restaurant, context),
             contextual_appropriateness |-> ScoreContextualFit(restaurant, context),
             quality_indicators |-> ScoreQualityIndicators(restaurant),
             novelty_factor |-> ScoreNoveltyFactor(restaurant)]
        final_score ==
            (scores.group_preference_match * Weights.group_preference_match
             + scores.individual_satisfaction * Weights.individual_satisfaction
             + scores.location_convenience * Weights.location_convenience
             + scores.contextual_appropriateness * Weights.contextual_appropriateness
             + scores.quality_indicators * Weights.quality_indicators
             + scores.novelty_factor * Weights.novelty_factor) \div 100
    IN  ApplyContextualAdjustments(final_score, restaurant, context)

\* The adjusted score returned as it is
Unclamped(final_score) == final_score

\* min(1.0, max(0.0, final_score))
Clamp(final_score) == Min2(One, Max2(0, final_score))

\* A GroupPreferences document declares none of the attributes that
\* _score_group_preference_match reads: the first read raises AttributeError
CalculateComprehensiveScore(restaurant, context, group_preferences, user_profiles) ==
    IF group_preferences.kind = "document"
    THEN [kind |-> "AttributeError", score |-> 0]
    ELSE [kind |-> "returned",
          score |-> Clamp(AdjustedScore(restaurant, context,
                                        group_preferences, user_profiles))]

\* Restaurants: one with every optional field absent, one that every
\* sub-score favours, one that most sub-scores penalise, and two ordinary
NoOptionalFields ==
    [cuisine_types |-> <<>>, price |-> 0, rating |-> 0, popularity |-> 0,
     photos |-> <<>>, reviews |-> <<>>, features |-> <<>>,
     dietary_options |-> <<>>, distance |-> 0, age_days |-> 400]

Restaurants ==
    { NoOptionalFields,
      [cuisine_types |-> <<"french", "korean">>, price |-> 4, rating |-> 100,
       popularity |-> 6900, photos |-> <<"p1">>, reviews |-> <<"r1">>,
       features |-> <<"outdoor_seating", "large_groups">>,
       dietary_options |-> <<"vegan">>, distance |-> 300, age_days |-> 10],
      [cuisine_types |-> <<"steakhouse">>, price |-> 3, rating |-> 0,
       popularity |-> 0, photos |-> <<>>, reviews |-> <<>>,
       features |-> <<"outdoor_seating">>,
       dietary_options |-> <<>>, distance |-> 0, age_days |-> 400],
      [cuisine_types |-> <<"thai", "pan_asian">>, price |-> 2, rating |-> 72,
       popularity |-> 8000, photos |-> <<"p1">>, reviews |-> <<>>,
       features |-> <<"intimate">>,
       dietary_options |-> <<"vegetarian">>, distance |-> 1500, age_days |-> 400],
      [cuisine_types |-> <<"pizza", "italian">>, price |-> 1, rating |-> 45,
       popularity |-> 3000, photos |-> <<>>, reviews |-> <<"r1">>,
       features |-> <<>>,
       dietary_options |-> <<"vegetarian", "vegan">>, distance |-> 4000, age_days |-> 90] }

\* The request: time, occasion, group size and the distance haversine_distance
\* computes from user_location to the restaurant
Situations ==
    { [time_of_day |-> "dinner", occasion |-> "celebration", group_size |-> 6,
       haversine_distance |-> 400],
      [time_of_day |-> "brunch", occasion |-> "", group_size |-> 6,
       haversine_distance |-> 7500],
      [time_of_day |-> "lunch", occasion |-> "casual", group_size |-> 2,
       haversine_distance |-> 1800],
      [time_of_day |-> "late_night", occasion |-> "business", group_size |-> 0,
       haversine_distance |-> 900] }

Contexts ==
    { [time_of_day |-> s.time_of_day, occasion |-> s.occasion,
       group_size |-> s.group_size, haversine_distance |-> s.haversine_distance,
       urgency |-> u, weather |-> w, budget_preference |-> b]
      : s \in Situations, u \in {"normal", "high"},
        w \in {"", "rainy", "sunny"}, b \in {"", "budget", "luxury"} }

\* The group profile: a GroupPreferences document, or an object with the
\* attributes the scorer reads
GroupProfiles ==
    { [kind |-> "document"],
      [kind |-> "profile", preferred_cuisines |-> <<>>, min_price_range |-> 0,
       max_price_range |-> 0, dietary_restrictions |-> <<>>, disliked_cuisines |-> <<>>],
      [kind |-> "profile", preferred_cuisines |-> <<"french", "thai">>,
       min_price_range |-> 3, max_price_range |-> 4,
       dietary_restrictions |-> <<"vegan">>, disliked_cuisines |-> <<>>],
      [kind |-> "profile", preferred_cuisines |-> <<"sushi">>, min_price_range |-> 0,
       max_price_range |-> 0, dietary_restrictions |-> <<>>,
       disliked_cuisines |-> <<"steakhouse", "italian">>] }

UserProfiles ==
    { [cuisine_preferences |-> [french |-> One, thai |-> 5000],
       price_sensitivity |-> One, dietary_restrictions |-> <<"vegan">>],
      [cuisine_preferences |-> <<>>,
       price_sensitivity |-> 2500, dietary_restrictions |-> <<"halal">>] }

RECURSIVE ProfileLists(_)
ProfileLists(n) ==
    IF n = 0 THEN {<<>>}
    ELSE ProfileLists(n - 1)
         \cup {Append(l, p) : l \in {m \in ProfileLists(n - 1) : Len(m) = n - 1},
                              p \in UserProfiles}

InitScore ==
    /\ scoreInput \in [restaurant : Restaurants, context : Contexts,
                       group_preferences : GroupProfiles,
                       user_profiles : ProfileLists(MaxProfiles)]
    /\ scoreOutcome = NotScored

ComprehensiveScore ==
    /\ scoreOutcome = NotScored
    /\ scoreOutcome' = CalculateComprehensiveScore(
                           scoreInput.restaurant, scoreInput.context,
                           scoreInput.group_preferences, scoreInput.user_profiles)
    /\ UNCHANGED <<scoreInput, gpVars, filterVars, analysisVars,
                     serviceVars, keywordVars, extractVars, rankVars, groupVars>>

InitScoring == InitGroup /\ IdleFilter /\ InitScore /\ IdleAnalysis /\ IdleOthers

SpecScore == InitScoring /\ [][ComprehensiveScore]_vars

Contains(text, phrase) ==
    \E i \in 1..(Len(text) - Len(phrase) + 1) :
        SubSeq(text, i, i + Len(phrase) - 1) = phrase

\* re.findall of an alternation of single words: its matches in text order
FindAll(text, terms) == SelectSeq(text, LAMBDA w : w \in terms)

QueryPatterns ==
    << {"pizza", "burger", "sushi", "taco", "tacos", "pasta", "chinese", "italian",
        "mexican", "indian", "thai", "japanese", "korean", "vietnamese", "american",
        "french", "mediterranean", "bbq", "seafood", "steakhouse", "cafe", "coffee",
        "breakfast", "brunch", "lunch", "dinner"},
       {"spicy", "mild", "hot", "sweet", "savory", "tangy", "crispy", "fried",
        "grilled", "baked", "roasted"},
       {"mcdonald", "mcdonalds", "subway", "starbucks", "kfc", "pizzahut", "dominos",
        "chipotle", "tacobell"},
       {"restaurant", "place", "spot", "joint", "bar", "grill", "bistro", "diner",
        "kitchen"} >>

QueryMatches(text) ==
    FindAll(text, QueryPatterns[1]) \o FindAll(text, QueryPatterns[2])
    \o FindAll(text, QueryPatterns[3]) \o FindAll(text, QueryPatterns[4])

GenericTerms == {"restaurant", "place", "spot", "joint", "bar"}

ExtractQuery(query_matches) ==
    LET specific_queries == SelectSeq(query_matches, LAMBDA q : q \notin GenericTerms)
    IN  IF query_matches = <<>> THEN ""
        ELSE IF specific_queries # <<>> THEN specific_queries[1]
        ELSE query_matches[1]

CategoryMapping ==
    ("restaurant" :> "13065") @@ ("fast food" :> "13145") @@ ("cafe" :> "13032")
    @@ ("bar" :> "13003") @@ ("italian" :> "13236") @@ ("chinese" :> "13099")
    @@ ("mexican" :> "13303") @@ ("indian" :> "13199") @@ ("japanese" :> "13263")
    @@ ("thai" :> "13352") @@ ("american" :> "13064") @@ ("french" :> "13148")
    @@ ("mediterranean" :> "13305") @@ ("korean" :> "13276")
    @@ ("vietnamese" :> "13360") @@ ("seafood" :> "13338") @@ ("pizza" :> "13064")
    @@ ("burger" :> "13064") @@ ("sushi" :> "13338") @@ ("bbq" :> "13061")
    @@ ("steakhouse" :> "13345") @@ ("breakfast" :> "13065") @@ ("coffee" :> "13032")

\* list(set(detected_categories)): the ids, in no particular order
DetectedCategories(query_matches) ==
    {CategoryMapping[m] : m \in Range(query_matches) \cap DOMAIN CategoryMapping}

\* price_patterns in the dict's order
PricePatterns ==
    << [term |-> <<"cheap">>, value |-> <<1, 2>>],
       [term |-> <<"budget">>, value |-> <<1, 2>>],
       [term |-> <<"affordable">>, value |-> <<1, 2>>],
       [term |-> <<"expensive">>, value |-> <<3, 4>>],
       [term |-> <<"pricey">>, value |-> <<3, 4>>],
       [term |-> <<"upscale">>, value |-> <<3, 4>>],
       [term |-> <<"fine", "dining">>, value |-> <<4, 4>>],
       [term |-> <<"mid-range">>, value |-> <<2, 3>>],
       [term |-> <<"moderate">>, value |-> <<2, 3>>] >>

\* The value of the first entry of an ordered table whose term occurs
FirstOccurring(text, table, none) ==
    LET hits == {i \in 1..Len(table) : Contains(text, table[i].term)}
    IN  IF hits = {} THEN none
        ELSE table[CHOOSE i \in hits : \A j \in hits : i <= j].value

\* int() of the digits of the "$<n>" tokens and of the bare numbers
DollarAmount ==
    ("$0" :> 0) @@ ("$15" :> 15) @@ ("$20" :> 20) @@ ("$21" :> 21) @@ ("$40" :> 40)
    @@ ("$50" :> 50) @@ ("$51" :> 51) @@ ("$150" :> 150) @@ ("$151" :> 151)
    @@ ("$400" :> 400) @@ ("$401" :> 401) @@ ("$500" :> 500)
BareNumber == ("7" :> 7) @@ ("30" :> 30) @@ ("120" :> 120) @@ ("9000" :> 9000)

BudgetWords == {"budget", "spend", "under", "around", "about"}

\* (budget|spend|under|around|about) (of )?<digits>
BudgetMatches(text) ==
    LET at == {i \in 1..Len(text) :
                 /\ text[i] \in BudgetWords
                 /\ \/ i + 1 <= Len(text) /\ text[i + 1] \in DOMAIN BareNumber
                    \/ /\ i + 2 <= Len(text) /\ text[i + 1] = "of"
                       /\ text[i + 2] \in DOMAIN BareNumber}
        number(i) == IF text[i + 1] = "of" THEN BareNumber[text[i + 2]]
                     ELSE BareNumber[text[i + 1]]
    IN  [k \in 1..Cardinality(at) |->
            number(CHOOSE i \in at : Cardinality({j \in at : j < i}) = k - 1)]

\* The amount the message names, 0 when it names none
ExtractAmount(text) ==
    LET dollar_matches == FindAll(text, DOMAIN DollarAmount)
        budget_matches == BudgetMatches(text)
        \* \b(\d{2,4})\b, then 50 <= n <= 5000
        potential_amounts ==
            SelectSeq(FindAll(text, DOMAIN BareNumber),
                      LAMBDA n : /\ 10 <= BareNumber[n] /\ BareNumber[n] <= 9999
                                 /\ 50 <= BareNumber[n] /\ BareNumber[n] <= 5000)
    IN  IF dollar_matches # <<>> THEN DollarAmount[dollar_matches[1]]
        ELSE IF budget_matches # <<>> THEN budget_matches[1]
        ELSE IF potential_amounts # <<>> THEN BareNumber[potential_amounts[1]]
        ELSE 0

\* Foursquare price levels of an amount
AmountPrices(amount) ==
    IF amount <= 20 THEN <<1, 1>>
    ELSE IF amount <= 50 THEN <<1, 2>>
    ELSE IF amount <= 150 THEN <<2, 3>>
    ELSE IF amount <= 400 THEN <<3, 4>>
    ELSE <<4, 4>>

ExtractPrices(text) ==
    IF ExtractAmount(text) # 0 THEN AmountPrices(ExtractAmount(text))
    ELSE FirstOccurring(text, PricePatterns, <<0, 0>>)

TimingPhrases ==
    { <<"open", "now">>, <<"right", "now">>, <<"currently", "open">>,
      <<"tonight">>, <<"today">>, <<"now">> }

ExtractOpenNow(text) == \E phrase \in TimingPhrases : Contains(text, phrase)

\* len() of the alphabetic words of the messages
Letters ==
    [hello |-> 5, everyone |-> 8, how |-> 3, about |-> 5, cheap |-> 5, thai |-> 4,
     tonight |-> 7, love |-> 4, that |-> 4, pizza |-> 5, place |-> 5, near |-> 4,
     union |-> 5, square |-> 6, sushi |-> 5, under |-> 5, budget |-> 6, of |-> 2,
     for |-> 3, best |-> 4, rated |-> 5, italian |-> 7, restaurant |-> 10,
     any |-> 3, in |-> 2, soho |-> 4, we |-> 2, tried |-> 5, the |-> 3, bar |-> 3,
     but |-> 3, bad |-> 3, sf |-> 2, around |-> 6, here |-> 4, something |-> 9,
     spicy |-> 5, closest |-> 7, today |-> 5]

LocationStarters == << <<"near">>, <<"in">>, <<"around">>, <<"close", "to">> >>

\* The words [A-Za-z\s]+ captures from position i on
RECURSIVE AlphaRun(_, _)
AlphaRun(text, i) ==
    IF i > Len(text) \/ text[i] \notin DOMAIN Letters THEN <<>>
    ELSE <<text[i]>> \o AlphaRun(text, i + 1)

\* re.search: the capture of the leftmost match of a starter, <<>> if none
LocationMatch(text, starter) ==
    LET at == {i \in 1..(Len(text) - Len(starter)) :
                 /\ SubSeq(text, i, i + Len(starter) - 1) = starter
                 /\ text[i + Len(starter)] \in DOMAIN Letters}
    IN  IF at = {} THEN <<>>
        ELSE AlphaRun(text, (CHOOSE i \in at : \A j \in at : i <= j) + Len(starter))

\* len(location): the letters and the spaces between the words
LocationLength(location) ==
    IF location = <<>> THEN 0
    ELSE Sum([i \in 1..Len(location) |-> Letters[location[i]]]) + Len(location) - 1

RECURSIVE ExtractNearFrom(_, _)
ExtractNearFrom(text, k) ==
    IF k > Len(LocationStarters) THEN <<>>
    ELSE IF LocationLength(LocationMatch(text, LocationStarters[k])) > 3
         THEN LocationMatch(text, LocationStarters[k])
         ELSE ExtractNearFrom(text, k + 1)

ExtractNear(text) == ExtractNearFrom(text, 1)

\* sort_patterns in the dict's order
SortPatterns ==
    << [term |-> <<"best", "rated">>, value |-> "rating"],
       [term |-> <<"highest", "rated">>, value |-> "rating"],
       [term |-> <<"top", "rated">>, value |-> "rating"],
       [term |-> <<"closest">>, value |-> "distance"],
       [term |-> <<"nearby">>, value |-> "distance"],
       [term |-> <<"nearest">>, value |-> "distance"] >>

\* The extractor's result; an absent parameter is "", {}, 0, FALSE or <<>>
FoursquareParameterExtractor(text) ==
    LET query_matches == QueryMatches(text)
        params == [query |-> ExtractQuery(query_matches),
                   fsq_category_ids |-> DetectedCategories(query_matches),
                   min_price |-> ExtractPrices(text)[1],
                   max_price |-> ExtractPrices(text)[2],
                   open_now |-> ExtractOpenNow(text),
                   near |-> ExtractNear(text),
                   sort |-> FirstOccurring(text, SortPatterns, "")]
        param_count ==
            (IF params.query # "" THEN 1 ELSE 0)
            + (IF params.fsq_category_ids # {} THEN 1 ELSE 0)
            + (IF params.min_price # 0 THEN 1 ELSE 0)
            + (IF params.max_price # 0 THEN 1 ELSE 0)
            + (IF params.open_now THEN 1 ELSE 0)
            + (IF params.near # <<>> THEN 1 ELSE 0)
            + (IF params.sort # "" THEN 1 ELSE 0)
    IN  [foursquare_params |-> params,
         relevance_score |-> Min2(One, (param_count * One) \div 4),
         parameters_extracted |-> param_count,
         message_length |-> Len(text),
         raw_query_matches |-> query_matches]

CountOccurring(text, phrases) == Cardinality({p \in phrases : Contains(text, p)})

SentimentAnalyzer(text) ==
    LET positive_count ==
            CountOccurring(text, { <<"love">>, <<"amazing">>, <<"delicious">>, <<"great">>,
                                   <<"awesome">>, <<"perfect">>, <<"craving">>, <<"excited">> })
        negative_count ==
            CountOccurring(text, { <<"hate">>, <<"terrible">>, <<"awful">>, <<"bad">>,
                                   <<"horrible">>, <<"disappointed">> })
        enthusiasm_count ==
            CountOccurring(text, { <<"!!">>, <<"omg">>, <<"definitely">>, <<"must", "try">> })
        agrees == CountOccurring(text, { <<"everyone">>, <<"we", "all">>, <<"agreed">> }) > 0
        disagrees == CountOccurring(text, { <<"but">>, <<"however">>, <<"disagree">> }) > 0
    IN  [overall_sentiment |->
             IF positive_count > negative_count THEN "positive"
             ELSE IF negative_count > positive_count THEN "negative" ELSE "neutral",
         confidence |-> Min2(9000, 5000 + Abs(positive_count - negative_count) * 1000),
         enthusiasm_level |->
             IF enthusiasm_count > 1 THEN "high"
             ELSE IF enthusiasm_count > 0 THEN "medium" ELSE "low",
         group_agreement |->
             IF agrees THEN "high" ELSE IF disagrees THEN "low" ELSE "unknown"]

RestaurantIndicators == {"restaurant", "place", "spot", "cafe", "bar"}

RestaurantMentionDetector(text) ==
    LET context ==
            IF Contains(text, <<"went", "to">>) \/ Contains(text, <<"tried">>)
            THEN "visited"
            ELSE IF Contains(text, <<"recommend">>) \/ Contains(text, <<"suggest">>)
                 THEN "recommended" ELSE "unknown"
        at == {i \in 2..Len(text) : text[i] \in RestaurantIndicators}
    IN  [k \in 1..Cardinality(at) |->
            [name |-> text[(CHOOSE i \in at : Cardinality({j \in at : j < i}) = k - 1) - 1],
             context |-> context, confidence |-> 7000]]

(***************************************************************************)
(* LangGraphAnalyzer: the compiled workflow and analyze_message            *)
(***************************************************************************)
Messages ==
    { <<>>,
      <<"hello", "everyone">>,
      <<"how", "about", "cheap", "thai", "tonight">>,
      <<"love", "that", "pizza", "place", "near", "union", "square", "!!">>,
      <<"sushi", "under", "$40">>,
      <<"budget", "of", "120", "for", "best", "rated", "italian", "restaurant">>,
      <<"any", "place", "in", "sf", "around", "here">>,
      <<"we", "tried", "the", "bar", "but", "bad">>,
      <<"something", "spicy">>,
      <<"closest", "today">> }

UserContexts ==
    { [message_id |-> "m1", user_id |-> "u1", group_id |-> "g1"] }

END == "__end__"

\* set_entry_point and the add_edge calls of _build_workflow
EntryPoint == "initial_analysis"

Edges ==
    [initial_analysis |-> "preference_extraction",
     preference_extraction |-> "sentiment_analysis",
     sentiment_analysis |-> "restaurant_detection",
     restaurant_detection |-> "context_integration",
     context_integration |-> "confidence_scoring",
     confidence_scoring |-> "final_synthesis",
     final_synthesis |-> END]

\* A workflow whose sentiment_analysis node leads past restaurant_detection
EdgeSkippingDetection(node) ==
    IF node = "sentiment_analysis" THEN "context_integration" ELSE Edges[node]

\* The node the compiled graph runs after a node
NextNode(node) == Edges[node]

\* The MessageAnalysisState analyze_message starts the workflow with; the
\* fields no node reads or writes are left out
InitialState(message_text, user_context) ==
    [user_context |-> user_context,
     raw_message |-> message_text,
     analysis_results |-> <<>>,
     confidence_scores |-> <<>>,
     extracted_preferences |-> <<>>,
     sentiment_analysis |-> <<>>,
     restaurant_mentions |-> <<>>,
     group_dynamics |-> <<>>,
     next_action |-> "initial_analysis"]

InitialAnalysisNode(state) ==
    [state EXCEPT !.analysis_results =
                      [message_type |-> "dining_related", relevance_score |-> 8000],
                  !.next_action = "preference_extraction"]

ExtractPreferencesNode(state) ==
    [state EXCEPT !.extracted_preferences =
                      <<FoursquareParameterExtractor(state.raw_message)>>,
                  !.next_action = "sentiment_analysis"]

AnalyzeSentimentNode(state) ==
    [state EXCEPT !.sentiment_analysis = SentimentAnalyzer(state.raw_message),
                  !.next_action = "restaurant_detection"]

DetectRestaurantsNode(state) ==
    [state EXCEPT !.restaurant_mentions = RestaurantMentionDetector(state.raw_message),
                  !.next_action = "context_integration"]

LeadershipPhrases == { <<"let's">>, <<"how", "about">>, <<"i", "suggest">> }

\* state["sentiment_analysis"] is {} until sentiment_analysis has run
IntegrateContextNode(state) ==
    [state EXCEPT !.group_dynamics =
                      [influence_level |->
                           IF CountOccurring(state.raw_message, LeadershipPhrases) > 0
                           THEN "high" ELSE "medium",
                       consensus_building |->
                           IF state.sentiment_analysis = <<>> THEN "unknown"
                           ELSE state.sentiment_analysis.group_agreement],
                  !.next_action = "confidence_scoring"]

NoExtraction ==
    [foursquare_params |-> [query |-> "", fsq_category_ids |-> {}, min_price |-> 0,
                            max_price |-> 0, open_now |-> FALSE, near |-> <<>>,
                            sort |-> ""],
     relevance_score |-> 0, parameters_extracted |-> 0, message_length |-> 0,
     raw_query_matches |-> <<>>]

\* state["extracted_preferences"][0] if the list is not empty, else {}
ExtractionResult(state) ==
    IF state.extracted_preferences # <<>> THEN state.extracted_preferences[1]
    ELSE NoExtraction

ScoreConfidenceNode(state) ==
    LET extraction_result == ExtractionResult(state)
        foursquare_params == extraction_result.foursquare_params
        param_count == extraction_result.parameters_extracted
        relevance_factors ==
            <<extraction_result.relevance_score>>
            \o (IF param_count > 0 THEN <<Min2(One, (param_count * One) \div 4)>> ELSE <<>>)
            \o (IF foursquare_params.query # "" THEN <<9000>> ELSE <<>>)
            \o (IF foursquare_params.fsq_category_ids # {} THEN <<8000>> ELSE <<>>)
            \o (IF foursquare_params.min_price # 0 \/ foursquare_params.max_price # 0
                THEN <<7000>> ELSE <<>>)
            \o (IF foursquare_params.near # <<>> THEN <<6000>> ELSE <<>>)
            \o (IF state.restaurant_mentions # <<>> THEN <<9000>> ELSE <<>>)
    IN  [state EXCEPT !.confidence_scores =
                          [overall_relevance |->
                               Sum(relevance_factors) \div Len(relevance_factors),
                           parameter_density |-> Min2(One, (param_count * One) \div 5),
                           foursquare_compatibility |->
                               IF param_count > 0 THEN One ELSE 0],
                      !.next_action = "final_synthesis"]

\* the threshold of should_update_preferences, in units of 1/One
UpdateThreshold == 4000

\* the update decision taken above one half instead
UpdateAboveHalf(overall_relevance) == overall_relevance > One \div 2

\* state["confidence_scores"]["overall_relevance"] > 0.4
ShouldUpdatePreferences(overall_relevance) == overall_relevance > UpdateThreshold

\* The timestamps of the result are left out
SynthesizeResultsNode(state) ==
    LET extraction_result == ExtractionResult(state)
    IN  [state EXCEPT !.analysis_results =
            [message_id |-> state.user_context.message_id,
             user_id |-> state.user_context.user_id,
             group_id |-> state.user_context.group_id,
             foursquare_parameters |-> extraction_result.foursquare_params,
             parameter_extraction_metadata |->
                 [relevance_score |-> extraction_result.relevance_score,
                  parameters_extracted |-> extraction_result.parameters_extracted,
                  message_length |-> extraction_result.message_length,
                  raw_query_matches |-> extraction_result.raw_query_matches],
             sentiment |-> state.sentiment_analysis,
             restaurant_mentions |-> state.restaurant_mentions,
             group_dynamics |-> state.group_dynamics,
             confidence_scores |-> state.confidence_scores,
             overall_relevance |-> state.confidence_scores.overall_relevance,
             should_update_preferences |->
                 ShouldUpdatePreferences(state.confidence_scores.overall_relevance),
             requires_follow_up |-> state.sentiment_analysis.enthusiasm_level = "high",
             consensus_indicator |-> state.group_dynamics.consensus_building,
             api_ready |-> state.confidence_scores.foursquare_compatibility > 0,
             api_parameters |-> extraction_result.foursquare_params,
             analysis_version |-> "langgraph_foursquare_v3.0"]]

\* The exception handler of analyze_message passes the exception on
Reraise(error, user_context) == [kind |-> "raised", error |-> error]

\* except Exception: the fallback analysis
FallbackAnalysis(error, user_context) ==
    [kind |-> "returned",
     error |-> error,
     message_id |-> user_context.message_id,
     user_id |-> user_context.user_id,
     group_id |-> user_context.group_id,
     overall_relevance |-> 0,
     should_update_preferences |-> FALSE,
     analysis_version |-> "fallback_v1.0"]

InitAnalysis == InitGroup /\ IdleFilter /\ IdleScore /\ IdleAnalysis /\ IdleOthers

\* analyze_message builds the initial state and invokes the workflow
AnalyzeMessage ==
    \E message_text \in Messages, user_context \in UserContexts :
        /\ wfNode = "idle"
        /\ wfState' = InitialState(message_text, user_context)
        /\ wfNode' = EntryPoint
        /\ UNCHANGED <<stagesRun, raisedBy, analysisResult, gpVars, filterVars, scoreVars,
                     serviceVars, keywordVars, extractVars, rankVars, groupVars>>

\* The workflow runs a node: its handler returns the state `handled` and the graph
\* moves along the node's edge, or the handler raises and the exception
\* leaves workflow.ainvoke
RunNode(node, handled) ==
    /\ wfNode = node
    /\ stagesRun' = Append(stagesRun, node)
    /\ \/ /\ wfState' = handled
          /\ wfNode' = NextNode(node)
          /\ UNCHANGED raisedBy
       \/ /\ raisedBy' = node
          /\ wfNode' = "except"
          /\ UNCHANGED wfState
    /\ UNCHANGED <<analysisResult, gpVars, filterVars, scoreVars,
                     serviceVars, keywordVars, extractVars, rankVars, groupVars>>

InitialAnalysis == RunNode("initial_analysis", InitialAnalysisNode(wfState))
PreferenceExtraction == RunNode("preference_extraction", ExtractPreferencesNode(wfState))
SentimentAnalysis == RunNode("sentiment_analysis", AnalyzeSentimentNode(wfState))
RestaurantDetection == RunNode("restaurant_detection", DetectRestaurantsNode(wfState))
ContextIntegration == RunNode("context_integration", IntegrateContextNode(wfState))
ConfidenceScoring == RunNode("confidence_scoring", ScoreConfidenceNode(wfState))
FinalSynthesis == RunNode("final_synthesis", SynthesizeResultsNode(wfState))

\* return final_state["analysis_results"]
ReturnAnalysis ==
    /\ wfNode = END
    /\ analysisResult' = [kind |-> "returned"] @@ wfState.analysis_results
    /\ wfNode' = "done"
    /\ UNCHANGED <<wfState, stagesRun, raisedBy, gpVars, filterVars, scoreVars,
                     serviceVars, keywordVars, extractVars, rankVars, groupVars>>

\* except Exception as e
HandleException ==
    /\ wfNode = "except"
    /\ analysisResult' = FallbackAnalysis(raisedBy, wfState.user_context)
    /\ wfNode' = "done"
    /\ UNCHANGED <<wfState, stagesRun, raisedBy, gpVars, filterVars, scoreVars,
                     serviceVars, keywordVars, extractVars, rankVars, groupVars>>

NextAnalysis ==
    \/ AnalyzeMessage
    \/ InitialAnalysis \/ PreferenceExtraction \/ SentimentAnalysis
    \/ RestaurantDetection \/ ContextIntegration \/ ConfidenceScoring
    \/ FinalSynthesis
    \/ ReturnAnalysis
    \/ HandleException

SpecAnalysis == InitAnalysis /\ [][NextAnalysis]_vars

PipelineOrder ==
    <<"initial_analysis", "preference_extraction", "sentiment_analysis",
      "restaurant_detection", "context_integration", "confidence_scoring",
      "final_synthesis">>

\* C9: the nodes run in the order initial_analysis, preference_extraction,
\* sentiment_analysis, restaurant_detection, context_integration,
\* confidence_scoring, final_synthesis, each once, and the workflow is at END,
\* and a result of the workflow is returned, only after all seven have run.
C9_StagesInOrder ==
    /\ stagesRun = Prefix(PipelineOrder, Len(stagesRun))
    /\ wfNode = END => stagesRun = PipelineOrder
    /\ (analysisResult.kind = "returned" /\ raisedBy = "") => stagesRun = PipelineOrder

\* A message that yields parameters went through all seven nodes and its
\* analysis was returned
C9_Witness ==
    /\ analysisResult.kind = "returned"
    /\ raisedBy = ""
    /\ stagesRun = PipelineOrder
    /\ analysisResult.api_ready
    /\ analysisResult.restaurant_mentions # <<>>

\* C10: analyze_message never raises; once a node has raised no further node
\* runs, and what analyze_message returns is the fallback record: relevance 0,
\* no preference update, and the error.
C10_FailureGivesFallback ==
    /\ analysisResult.kind # "raised"
    /\ wfNode = "done" => analysisResult.kind = "returned"
    /\ raisedBy # "" =>
           /\ wfNode \in {"except", "done"}
           /\ stagesRun[Len(stagesRun)] = raisedBy
           /\ analysisResult.kind = "returned" =>
                  /\ analysisResult.overall_relevance = 0
                  /\ analysisResult.should_update_preferences = FALSE
                  /\ analysisResult.error = raisedBy
                  /\ analysisResult.analysis_version = "fallback_v1.0"

\* A node in the middle of the pipeline raised and the fallback was returned
C10_Witness ==
    /\ raisedBy = "restaurant_detection"
    /\ analysisResult.kind = "returned"
    /\ Len(stagesRun) = 4

(***************************************************************************)
(* GroupPreferencesService over the group_preferences collection           *)
(*   (app/services/group_preference_service.py) and the worker step that   *)
(*   applies an analysis (background_worker/tasks/message_analysis.py).    *)
(*   All the documents belong to one group id.  A call is split where the  *)
(*   coroutine awaits the database: other calls run in between.            *)
(***************************************************************************)
MaxMessages == 2         \* analysed messages of one member

MessageIds == 1..MaxMessages

\* llm_config.MIN_CONFIDENCE_THRESHOLD, in units of 1/One
MinConfidenceThreshold == 3000

\* user.preferences of the User document of a firebase id
UserDocumentPreferences(uid) ==
    IF uid = 1
    THEN [EmptyPrefs EXCEPT !.preferred_cuisines = <<"thai">>,
                            !.spice_tolerance = "medium",
                            !.budget_preference = "budget"]
    ELSE [EmptyPrefs EXCEPT !.dining_style = <<"casual">>,
                            !.spice_tolerance = "medium",
                            !.budget_preference = "upscale"]

\* The member whose messages are analysed
Author == 1

\* GroupPreferences.find_one(GroupPreferences.group_id == group_id): the _id
\* of the first document of the group, 0 for None
FindOne(collection) == IF collection = <<>> THEN 0 ELSE 1

\* document.save(): a document without _id is inserted, a document with an
\* _id overwrites every field of the stored one.  A unique group_id index
\* rejects the insert of a second document of the group.
Save(collection, unique, id, doc) ==
    IF id # 0
    THEN [kind |-> "saved", collection |-> [collection EXCEPT ![id] = doc]]
    ELSE IF unique /\ collection # <<>>
         THEN [kind |-> "DuplicateKeyError", collection |-> collection]
         ELSE [kind |-> "saved", collection |-> Append(collection, doc)]

\* The analysis dictionaries _update_user_preferences_from_analysis receives:
\* the analyzer's result has neither "extracted_keywords" nor "preferences";
\* the others carry the keys the function reads.
NoKeywords == [cuisine_keywords |-> <<>>, dietary_keywords |-> <<>>]

Payloads ==
    { [extracted_keywords |-> NoKeywords, preferences |-> FALSE,
       overall_relevance |-> 8800],
      [extracted_keywords |-> [NoKeywords EXCEPT !.cuisine_keywords = <<"thai">>],
       preferences |-> FALSE, overall_relevance |-> 8000],
      [extracted_keywords |-> [NoKeywords EXCEPT !.cuisine_keywords = <<"sushi">>,
                                                 !.dietary_keywords = <<"vegan">>],
       preferences |-> FALSE, overall_relevance |-> 9000],
      [extracted_keywords |-> NoKeywords, preferences |-> TRUE,
       overall_relevance |-> 8000] }

\* any(keywords for keywords in extracted_keywords.values() if ... keywords)
HasKeywords(payload) ==
    \/ payload.extracted_keywords.cuisine_keywords # <<>>
    \/ payload.extracted_keywords.dietary_keywords # <<>>

KeywordsOf(payload) ==
    Range(payload.extracted_keywords.cuisine_keywords)
    \cup Range(payload.extracted_keywords.dietary_keywords)

\* update_preferences_from_llm: GroupPreferences.firebase_uid is not a field
\* of the document class, so building the query raises before any read
UpdatePreferencesFromLlm(collection, uid, payload) ==
    [kind |-> "AttributeError", collection |-> collection]

\* create_default_group_preferences is not a method of the service
CreateDefaultGroupPreferences(collection, uid) ==
    [kind |-> "AttributeError", collection |-> collection]

\* _update_user_preferences_from_analysis: the except clause logs whatever
\* was raised and returns
UpdateUserPreferencesFromAnalysis(collection, uid, payload) ==
    LET confident == payload.overall_relevance > MinConfidenceThreshold
        attempt == IF HasKeywords(payload) /\ confident
                   THEN UpdatePreferencesFromLlm(collection, uid, payload)
                   ELSE IF payload.preferences /\ confident
                        THEN CreateDefaultGroupPreferences(collection, uid)
                        ELSE [kind |-> "skipped", collection |-> collection]
    IN  [pc |-> IF attempt.kind = "AttributeError" THEN "error_logged"
                ELSE attempt.kind,
         collection |-> attempt.collection]

NotJoining == [pc |-> "idle", id |-> 0, doc |-> NewGroupPreferences]
NotAnalysing == [pc |-> "none", payload |-> CHOOSE p \in Payloads : ~HasKeywords(p) /\ ~p.preferences]

InitService ==
    /\ db = <<>>
    /\ uniqueIndex \in BOOLEAN
    /\ joins = [u \in Users |-> NotJoining]
    /\ updates = [m \in MessageIds |-> NotAnalysing]

\* create_or_update_group_preferences up to the first await:
\* User.find_one, ValueError when there is no such user
JoinFindUser ==
    \E u \in Users, found \in BOOLEAN :
        /\ joins[u].pc = "idle"
        /\ joins' = [joins EXCEPT ![u].pc = IF found THEN "user_found" ELSE "ValueError"]
        /\ UNCHANGED <<db, uniqueIndex, updates>>
        /\ UNCHANGED <<gpVars, filterVars, scoreVars, analysisVars,
                       keywordVars, extractVars, rankVars, groupVars>>

\* ... GroupPreferences.find_one, the new document when there is none, and
\* add_member_preferences on the copy in memory; the call then awaits save()
JoinFindGroup ==
    \E u \in Users :
        /\ joins[u].pc = "user_found"
        /\ LET id == FindOne(db)
               group_prefs == IF id = 0 THEN NewGroupPreferences ELSE db[id]
           IN  joins' = [joins EXCEPT ![u] =
                   [pc |-> "saving", id |-> id,
                    doc |-> AddMemberPreferences(group_prefs, u,
                                                 UserDocumentPreferences(u))]]
        /\ UNCHANGED <<db, uniqueIndex, updates>>
        /\ UNCHANGED <<gpVars, filterVars, scoreVars, analysisVars,
                       keywordVars, extractVars, rankVars, groupVars>>

\* ... await group_prefs.save()
JoinSave ==
    \E u \in Users :
        /\ joins[u].pc = "saving"
        /\ LET saved == Save(db, uniqueIndex, joins[u].id, joins[u].doc)
           IN  /\ db' = saved.collection
               /\ joins' = [joins EXCEPT ![u].pc = saved.kind]
        /\ UNCHANGED <<uniqueIndex, updates>>
        /\ UNCHANGED <<gpVars, filterVars, scoreVars, analysisVars,
                       keywordVars, extractVars, rankVars, groupVars>>

\* The analysis of a message of Author is ready to be applied
AnalysisCompleted ==
    \E m \in MessageIds, payload \in Payloads :
        /\ updates[m].pc = "none"
        /\ updates' = [updates EXCEPT ![m] = [pc |-> "pending", payload |-> payload]]
        /\ UNCHANGED <<db, uniqueIndex, joins>>
        /\ UNCHANGED <<gpVars, filterVars, scoreVars, analysisVars,
                       keywordVars, extractVars, rankVars, groupVars>>

ApplyAnalysis ==
    \E m \in MessageIds :
        /\ updates[m].pc = "pending"
        /\ LET applied == UpdateUserPreferencesFromAnalysis(db, Author, updates[m].payload)
           IN  /\ db' = applied.collection
               /\ updates' = [updates EXCEPT ![m].pc = applied.pc]
        /\ UNCHANGED <<uniqueIndex, joins>>
        /\ UNCHANGED <<gpVars, filterVars, scoreVars, analysisVars,
                       keywordVars, extractVars, rankVars, groupVars>>

InitServiceCalls ==
    /\ InitGroup /\ IdleFilter /\ IdleScore /\ IdleAnalysis
    /\ InitService /\ IdleKeywords /\ IdleExtract /\ IdleRank /\ IdleGroup

NextService ==
    JoinFindUser \/ JoinFindGroup \/ JoinSave \/ AnalysisCompleted \/ ApplyAnalysis

SpecService == InitServiceCalls /\ [][NextService]_vars

\* The read-modify-write calls that have read the document and not yet saved
InFlight == {u \in Users : joins[u].pc = "saving"}

\* C11: mutations of one group's GroupPreferences are mutually exclusive: at
\* no time are two read-modify-write calls on the group between their read
\* and their save.
C11_MutuallyExclusive == Cardinality(InFlight) <= 1

\* The users whose join call has ended after reaching the collection
Joined == {u \in Users : joins[u].pc \in {"saved", "DuplicateKeyError"}}

\* C16: at every moment there is at most one GroupPreferences instance per
\* group id, also when two users join before any instance exists, and once
\* the joins have ended that instance holds the contribution of every user
\* who joined.
C16_OneInstancePerGroup ==
    /\ Len(db) <= 1
    /\ InFlight = {} =>
           \A u \in Joined : db # <<>> /\ u \in Keys(db[1].member_contributions)

\* The keywords learned from chat that the collection holds for a member
StoredLearnedKeywords(collection, uid) ==
    UNION { IF uid \in Keys(collection[i].member_contributions)
            THEN Range(Get(collection[i].member_contributions, uid).learned_from_chat.queries)
            ELSE {}
            : i \in DOMAIN collection }

\* Both analyses carried keywords above the confidence threshold and both
\* calls have returned
BothApplied ==
    \A m \in MessageIds :
        /\ updates[m].pc \notin {"none", "pending"}
        /\ HasKeywords(updates[m].payload)
        /\ updates[m].payload.overall_relevance > MinConfidenceThreshold

\* C12: once the analyses of two messages of one member have both applied
\* their keywords, the member's stored learned keywords contain the keywords
\* of both messages.
C12_NoLostKeywords ==
    BothApplied =>
        \A m \in MessageIds :
            KeywordsOf(updates[m].payload) \subseteq StoredLearnedKeywords(db, Author)

(***************************************************************************)
(* Price consensus of _aggregate_member_preferences over members that      *)
(* differ in their budget tier and in the price range learned from chat    *)
(***************************************************************************)
MaxMembers == 3          \* members of the group in the consensus runs
MaxLearned == 1          \* messages with a price range applied in a run

Members == 1..MaxMembers

\* user.preferences with only a budget tier; "premium" is a tier the
\* aggregation does not know
TierPreferences ==
    { [EmptyPrefs EXCEPT !.budget_preference = t]
      : t \in {"budget", "moderate", "upscale", "premium"} }

\* analysis results that carry a price range
PriceAnalyses ==
    {a \in AnalysisResults : a.api_ready /\ a.foursquare_parameters.min_price # 0}

\* The joining user is the one with the lowest id outside the group: the
\* aggregation never looks at the id itself
AddTierMember ==
    \E uid \in Members, prefs \in TierPreferences :
        /\ uid \notin Keys(gp.member_contributions)
        /\ \A other \in Members \ Keys(gp.member_contributions) : uid <= other
        /\ gp' = AddMemberPreferences(gp, uid, prefs)
        /\ UNCHANGED <<searchParams, filterVars, scoreVars, analysisVars,
                       serviceVars, keywordVars, extractVars, rankVars, groupVars>>

LearnPrice ==
    \E uid \in Members, a \in PriceAnalyses :
        /\ uid \in Keys(gp.member_contributions)
        /\ gp.total_group_interactions < MaxLearned
        /\ gp' = UpdateFromLlmMessage(gp, uid, a)
        /\ UNCHANGED <<searchParams, filterVars, scoreVars, analysisVars,
                       serviceVars, keywordVars, extractVars, rankVars, groupVars>>

NextConsensus == AddTierMember \/ LearnPrice

SpecConsensus == Init /\ [][NextConsensus]_vars

\* The bucket of a budget tier as the documentation gives it, 0 for no bucket
TierMin(tier) ==
    IF tier = "budget" THEN 1 ELSE IF tier = "moderate" THEN 2
    ELSE IF tier = "upscale" THEN 3 ELSE 0

TierMax(tier) == IF TierMin(tier) = 0 THEN 0 ELSE TierMin(tier) + 1

PriceLevels == 1..4

\* How many members' tier buckets have the minimum (maximum) v
TierMinVotes(g, v) ==
    Cardinality({i \in DOMAIN g.member_contributions :
                    TierMin(g.member_contributions[i].prefs.budget_preference) = v})

TierMaxVotes(g, v) ==
    Cardinality({i \in DOMAIN g.member_contributions :
                    TierMax(g.member_contributions[i].prefs.budget_preference) = v})

\* ... and how many price ranges learned from chat have it
LearnedMinVotes(g, v) ==
    Cardinality({i \in DOMAIN g.member_contributions :
                    g.member_contributions[i].prefs.learned_from_chat.price_range.min = v})

LearnedMaxVotes(g, v) ==
    Cardinality({i \in DOMAIN g.member_contributions :
                    g.member_contributions[i].prefs.learned_from_chat.price_range.max = v})

\* C13 as stated: the consensus min_price is the mode of the members' tier
\* minimums and max_price the mode of their tier maximums, each member
\* contributing the one bucket of the budget tier, whenever that mode is
\* unique.
C13_ModeOfTierBuckets ==
    \A v \in PriceLevels :
        /\ (\A w \in PriceLevels \ {v} : TierMinVotes(gp, w) < TierMinVotes(gp, v))
               => gp.price_preferences.min_price = v
        /\ (\A w \in PriceLevels \ {v} : TierMaxVotes(gp, w) < TierMaxVotes(gp, v))
               => gp.price_preferences.max_price = v

\* C13 amended: a member contributes the bucket of the budget tier and, when
\* chat learning has recorded one, the learned price range as one more
\* bucket; the consensus min_price is the mode of all the collected minimums
\* and max_price the mode of all the collected maximums, whenever that mode
\* is unique.
C13_ModeOfCollectedBuckets ==
    \A v \in PriceLevels :
        /\ (\A w \in PriceLevels \ {v} :
                TierMinVotes(gp, w) + LearnedMinVotes(gp, w)
                    < TierMinVotes(gp, v) + LearnedMinVotes(gp, v))
               => gp.price_preferences.min_price = v
        /\ (\A w \in PriceLevels \ {v} :
                TierMaxVotes(gp, w) + LearnedMaxVotes(gp, w)
                    < TierMaxVotes(gp, v) + LearnedMaxVotes(gp, v))
               => gp.price_preferences.max_price = v

\* Tiers {budget, moderate, moderate} have given the consensus (2, 3)
C13_Witness ==
    /\ Len(gp.member_contributions) = 3
    /\ TierMinVotes(gp, 1) = 1 /\ TierMinVotes(gp, 2) = 2
    /\ \A v \in PriceLevels : LearnedMinVotes(gp, v) = 0
    /\ gp.price_preferences = [min_price |-> 2, max_price |-> 3]

(***************************************************************************)
(* Keywords learned from a long run of messages of one member              *)
(*   (GroupPreferences.update_from_llm_message; the merge of the service,  *)
(*   _update_keywords_from_llm, reads group_prefs.llm_keywords, which a    *)
(*   GroupPreferences document does not have, and stores nothing)          *)
(***************************************************************************)
MaxApplied == 21         \* messages applied in one run

\* combined[-20:]
KeywordCap == 20

\* Query terms the first query pattern of the extractor yields
QueryTerms ==
    <<"pizza", "burger", "sushi", "taco", "pasta", "chinese", "italian",
      "mexican", "indian", "thai", "japanese", "korean", "vietnamese",
      "american", "french", "mediterranean", "bbq", "seafood", "steakhouse",
      "cafe", "coffee", "breakfast">>

\* The analysis of a message whose query is QueryTerms[k], with or without
\* a category id
TermAnalysis(k, with_category) ==
    [api_ready |-> TRUE, overall_relevance |-> 80,
     foursquare_parameters |->
         [NoParams EXCEPT !.query = QueryTerms[k],
                          !.fsq_category_ids =
                              IF with_category THEN <<"13065">> ELSE <<>>]]

\* The queries learned so far for the author of the messages
LearnedQueries(g) ==
    IF Author \in Keys(g.member_contributions)
    THEN Get(g.member_contributions, Author).learned_from_chat.queries
    ELSE <<>>

LearnedCategories(g) ==
    IF Author \in Keys(g.member_contributions)
    THEN Get(g.member_contributions, Author).learned_from_chat.categories
    ELSE <<>>

\* One more message of the author is applied: its query is the next term the
\* author has not used yet, or the first term once more
ApplyMessage ==
    \E repeat \in BOOLEAN, with_category \in BOOLEAN :
        LET k == IF repeat THEN 1 ELSE Len(LearnedQueries(gp)) + 1
        IN  /\ gp.total_group_interactions < MaxApplied
            /\ k <= Len(QueryTerms)
            /\ gp' = UpdateFromLlmMessage(gp, Author, TermAnalysis(k, with_category))
            /\ UNCHANGED <<searchParams, filterVars, scoreVars, analysisVars,
                           serviceVars, keywordVars, extractVars, rankVars, groupVars>>

SpecLearn == Init /\ [][ApplyMessage]_vars

NoDuplicates(list) == \A i, j \in DOMAIN list : list[i] = list[j] => i = j

\* C14: after any sequence of keyword applications for a member, every list
\* of that member's learned keywords has at most 20 entries and no duplicate
\* entry.
C14_LearnedListsCapped ==
    /\ Len(LearnedQueries(gp)) <= KeywordCap
    /\ Len(LearnedCategories(gp)) <= KeywordCap
    /\ NoDuplicates(LearnedQueries(gp))
    /\ NoDuplicates(LearnedCategories(gp))

(***************************************************************************)
(* Keyword aggregation of the service                                      *)
(*   (get_group_aggregated_preferences,                                    *)
(*    get_llm_aggregated_recommendation_keywords and its fallbacks).       *)
(*   A dict is the list of its [key, value] items in insertion order.      *)
(***************************************************************************)
\* len() of the strings that occur as keywords
KeywordLength ==
    ("thai" :> 4) @@ ("Thai" :> 4) @@ ("vegan" :> 5) @@ ("spicy" :> 5)
    @@ ("bbq" :> 3) @@ ("ok" :> 2) @@ ("sushi" :> 5) @@ ("italian" :> 7)
    @@ ("restaurant" :> 10) @@ ("good" :> 4) @@ ("recommended" :> 11)
    @@ ("authentic spicy thai kitchen" :> 28)

\* str.lower() on those strings
Lower(keyword) == IF keyword = "Thai" THEN "thai" ELSE keyword

DictKeys(dict) == [i \in DOMAIN dict |-> dict[i].key]

HasKey(dict, key) == \E i \in DOMAIN dict : dict[i].key = key

DictGet(dict, key, default) ==
    IF HasKey(dict, key)
    THEN dict[CHOOSE i \in DOMAIN dict : dict[i].key = key].value
    ELSE default

DictSet(dict, key, value) ==
    IF HasKey(dict, key)
    THEN [i \in DOMAIN dict |->
             IF dict[i].key = key THEN [key |-> key, value |-> value] ELSE dict[i]]
    ELSE Append(dict, [key |-> key, value |-> value])

\* for keyword in keywords: if keyword and len(keyword.strip()) > 2:
\*     counts[keyword.strip().lower()] = counts.get(..., 0) + 1
RECURSIVE CountKeywords(_, _)
CountKeywords(counts, keywords) ==
    IF keywords = <<>> THEN counts
    ELSE LET keyword == Lower(Head(keywords))
             counted == IF KeywordLength[Head(keywords)] > 2
                        THEN DictSet(counts, keyword, DictGet(counts, keyword, 0) + 1)
                        ELSE counts
         IN  CountKeywords(counted, Tail(keywords))

\* the loop over prefs.llm_keywords.items() for all_keywords
RECURSIVE CountCategories(_, _)
CountCategories(counts, llm_keywords) ==
    IF llm_keywords = <<>> THEN counts
    ELSE CountCategories(CountKeywords(counts, Head(llm_keywords).value),
                         Tail(llm_keywords))

RECURSIVE CountAllKeywords(_, _)
CountAllKeywords(counts, all_group_prefs) ==
    IF all_group_prefs = <<>> THEN counts
    ELSE CountAllKeywords(CountCategories(counts, Head(all_group_prefs).llm_keywords),
                          Tail(all_group_prefs))

\* ... and for category_aggregated: category -> {keyword -> count}
RECURSIVE CountByCategory(_, _)
CountByCategory(by_category, llm_keywords) ==
    IF llm_keywords = <<>> THEN by_category
    ELSE LET category == Head(llm_keywords).key
             counts == DictGet(by_category, category, <<>>)
         IN  CountByCategory(
                 DictSet(by_category, category,
                         CountKeywords(counts, Head(llm_keywords).value)),
                 Tail(llm_keywords))

RECURSIVE CategoryAggregated(_, _)
CategoryAggregated(by_category, all_group_prefs) ==
    IF all_group_prefs = <<>> THEN by_category
    ELSE CategoryAggregated(CountByCategory(by_category, Head(all_group_prefs).llm_keywords),
                            Tail(all_group_prefs))

\* sorted(items, key=lambda x: x[1], reverse=True): stable
RECURSIVE InsertByCount(_, _)
InsertByCount(sorted, item) ==
    IF sorted = <<>> THEN <<item>>
    ELSE IF Head(sorted).value >= item.value
         THEN <<Head(sorted)>> \o InsertByCount(Tail(sorted), item)
         ELSE <<item>> \o sorted

RECURSIVE SortByCount(_)
SortByCount(items) ==
    IF items = <<>> THEN <<>>
    ELSE InsertByCount(SortByCount(Prefix(items, Len(items) - 1)), items[Len(items)])

\* aggregated["legacy_preferences"]: key -> the values of all the documents
RECURSIVE ExtendLegacy(_, _)
ExtendLegacy(legacy, preferences) ==
    IF preferences = <<>> THEN legacy
    ELSE LET item == Head(preferences)
         IN  ExtendLegacy(DictSet(legacy, item.key,
                                  DictGet(legacy, item.key, <<>>) \o item.value),
                          Tail(preferences))

RECURSIVE LegacyPreferences(_, _)
LegacyPreferences(legacy, all_group_prefs) ==
    IF all_group_prefs = <<>> THEN legacy
    ELSE LegacyPreferences(ExtendLegacy(legacy, Head(all_group_prefs).preferences),
                           Tail(all_group_prefs))

\* get_group_aggregated_preferences on the documents GroupPreferences.find
\* returned.  prefs.llm_keywords and prefs.preferences are not fields of a
\* GroupPreferences document: reading them raises AttributeError.
GetGroupAggregatedPreferences(all_group_prefs) ==
    IF all_group_prefs = <<>>
    THEN [kind |-> "aggregated", total_members |-> 0, aggregated_keywords |-> <<>>,
          keyword_frequency |-> <<>>, category_keywords |-> <<>>,
          legacy_preferences |-> <<>>, has_llm_data |-> FALSE]
    ELSE IF \E i \in DOMAIN all_group_prefs : all_group_prefs[i].kind = "document"
    THEN [kind |-> "AttributeError"]
    ELSE
        LET keyword_frequency == SortByCount(CountAllKeywords(<<>>, all_group_prefs))
            by_category == CategoryAggregated(<<>>, all_group_prefs)
        IN  [kind |-> "aggregated",
             total_members |-> Len(all_group_prefs),
             aggregated_keywords |-> Prefix(DictKeys(keyword_frequency), 30),
             keyword_frequency |-> keyword_frequency,
             category_keywords |->
                 [i \in DOMAIN by_category |->
                     [key |-> by_category[i].key,
                      value |-> Prefix(DictKeys(SortByCount(by_category[i].value)), 10)]],
             legacy_preferences |-> LegacyPreferences(<<>>, all_group_prefs),
             has_llm_data |-> \E i \in DOMAIN all_group_prefs :
                                 all_group_prefs[i].llm_keywords # <<>>]

\* _fallback_keywords_from_legacy
FallbackKeywordsFromLegacy(legacy_preferences) ==
    LET keywords == Prefix(DictGet(legacy_preferences, "preferred_cuisines", <<>>), 5)
                    \o Prefix(DictGet(legacy_preferences, "dietary_restrictions", <<>>), 5)
    IN  IF keywords = <<>> THEN <<"restaurant", "good", "recommended">>
        ELSE Prefix(keywords, 10)

\* The deduplicating loop of _fallback_frequency_aggregation
RECURSIVE DedupeUpTo(_, _, _)
DedupeUpTo(final_keywords, keywords, limit) ==
    IF keywords = <<>> \/ Len(final_keywords) >= limit THEN final_keywords
    ELSE LET kw == Head(keywords)
             seen == {Lower(final_keywords[i]) : i \in DOMAIN final_keywords}
         IN  DedupeUpTo(IF Lower(kw) \notin seen /\ KeywordLength[kw] > 2
                        THEN Append(final_keywords, kw) ELSE final_keywords,
                        Tail(keywords), limit)

PriorityCategories ==
    <<"cuisine_keywords", "dietary_keywords", "taste_keywords", "food_keywords">>

RECURSIVE PriorityKeywords(_, _)
PriorityKeywords(categories, category_keywords) ==
    IF categories = <<>> THEN <<>>
    ELSE Prefix(DictGet(category_keywords, Head(categories), <<>>), 3)
         \o PriorityKeywords(Tail(categories), category_keywords)

\* _fallback_frequency_aggregation
FallbackFrequencyAggregation(keyword_frequency, category_keywords) ==
    DedupeUpTo(<<>>,
               Prefix(DictKeys(keyword_frequency), 10)
               \o PriorityKeywords(PriorityCategories, category_keywords),
               12)

\* The text-completion capability as a call finds it: the analyzer module
\* cannot be imported (line 247, before the try), llm.ainvoke raises, or it
\* answers with a comma-separated text, given as its stripped pieces
LlmAnswers ==
    { <<"thai", "vegan", "ok">>,
      <<"authentic spicy thai kitchen", "sushi", "Thai">> }

LlmStates ==
    { [status |-> "import_raises", answer |-> <<>>],
      [status |-> "ainvoke_raises", answer |-> <<>>] }
    \cup { [status |-> "answers", answer |-> a] : a \in LlmAnswers }

\* [kw for kw in final_keywords if len(kw) > 2 and len(kw) < 25][:15]
CleanAnswer(pieces) ==
    Prefix(SelectSeq(pieces, LAMBDA kw : KeywordLength[kw] > 2 /\ KeywordLength[kw] < 25),
           15)

NotStored == [written |-> FALSE, keywords |-> <<>>]

\* get_llm_aggregated_recommendation_keywords: what the call returns or
\* raises, and what _update_group_recommendation_keywords wrote to the group
GetLlmAggregatedRecommendationKeywords(all_group_prefs, llm) ==
    LET group_prefs == GetGroupAggregatedPreferences(all_group_prefs)
    IN  IF group_prefs.kind = "AttributeError"
        THEN [kind |-> "AttributeError", keywords |-> <<>>, group |-> NotStored]
        ELSE IF ~group_prefs.has_llm_data
        THEN [kind |-> "returned",
              keywords |-> FallbackKeywordsFromLegacy(group_prefs.legacy_preferences),
              group |-> NotStored]
        ELSE IF group_prefs.aggregated_keywords = <<>>
        THEN [kind |-> "returned", keywords |-> <<>>, group |-> NotStored]
        ELSE IF llm.status = "import_raises"
        THEN [kind |-> "ImportError", keywords |-> <<>>, group |-> NotStored]
        ELSE IF llm.status = "ainvoke_raises"
        THEN [kind |-> "returned",
              keywords |-> FallbackFrequencyAggregation(group_prefs.keyword_frequency,
                                                        group_prefs.category_keywords),
              group |-> NotStored]
        ELSE LET final_keywords == CleanAnswer(llm.answer)
             IN  [kind |-> "returned", keywords |-> final_keywords,
                  group |-> [written |-> TRUE, keywords |-> final_keywords]]

\* Stored objects that carry the attributes the aggregation reads
NoKeywordProfile ==
    [kind |-> "keywords", llm_keywords |-> <<>>, preferences |-> <<>>]

KeywordProfiles ==
    { NoKeywordProfile,
      [NoKeywordProfile EXCEPT
          !.preferences = <<[key |-> "preferred_cuisines", value |-> <<"italian">>]>>],
      [NoKeywordProfile EXCEPT
          !.llm_keywords = <<[key |-> "cuisine_keywords", value |-> <<"Thai", "sushi">>],
                             [key |-> "taste_keywords", value |-> <<"spicy", "ok">>]>>],
      [NoKeywordProfile EXCEPT
          !.llm_keywords = <<[key |-> "dietary_keywords", value |-> <<"vegan">>],
                             [key |-> "cuisine_keywords", value |-> <<"thai", "bbq">>]>>,
          !.preferences = <<[key |-> "dietary_restrictions", value |-> <<"vegan">>]>>],
      [NoKeywordProfile EXCEPT
          !.llm_keywords = <<[key |-> "misc_keywords", value |-> <<"ok">>]>>] }

\* The GroupPreferences documents of the group as the service saves them
StoredDocuments ==
    { [kind |-> "document",
       doc |-> AddMemberPreferences(NewGroupPreferences, u, UserDocumentPreferences(u))]
      : u \in Users }

\* What GroupPreferences.find(group_id).to_list() can return
FoundLists ==
    {<<>>}
    \cup {<<d>> : d \in StoredDocuments}
    \cup {<<p>> : p \in KeywordProfiles}
    \cup {<<p, q>> : p \in KeywordProfiles, q \in KeywordProfiles}

InitKeywords ==
    /\ kwRequest \in [found : FoundLists, llm : LlmStates]
    /\ kwOutcome = [kind |-> "none"]

RecommendationKeywords ==
    /\ kwOutcome.kind = "none"
    /\ kwOutcome' = GetLlmAggregatedRecommendationKeywords(kwRequest.found, kwRequest.llm)
    /\ UNCHANGED <<kwRequest, gpVars, filterVars, scoreVars, analysisVars,
                   serviceVars, extractVars, rankVars, groupVars>>

InitKeywordCalls ==
    /\ InitGroup /\ IdleFilter /\ IdleScore /\ IdleAnalysis
    /\ IdleService /\ InitKeywords /\ IdleExtract /\ IdleRank /\ IdleGroup

SpecKeywords == InitKeywordCalls /\ [][RecommendationKeywords]_vars

\* C15: when the text-completion capability is unavailable or fails, the
\* call does not raise; where the group has learned keywords it returns the
\* list of _fallback_frequency_aggregation.
C15_FallbackWithoutRaising ==
    (kwOutcome.kind # "none" /\ kwRequest.llm.status # "answers") =>
        /\ kwOutcome.kind = "returned"
        /\ LET group_prefs == GetGroupAggregatedPreferences(kwRequest.found)
           IN  (group_prefs.kind = "aggregated" /\ group_prefs.has_llm_data
                /\ group_prefs.aggregated_keywords # <<>>) =>
                   kwOutcome.keywords =
                       FallbackFrequencyAggregation(group_prefs.keyword_frequency,
                                                    group_prefs.category_keywords)

\* C17 as stated: in every successful analysis result,
\* should_update_preferences is true exactly when overall_relevance > 0.5.
C17_UpdateAboveHalf ==
    analysisResult.kind = "returned" =>
        (analysisResult.should_update_preferences
            <=> analysisResult.overall_relevance > One \div 2)

\* C17 amended: in every successful analysis result,
\* should_update_preferences is true exactly when overall_relevance > 0.4.
C17_UpdateAboveThreshold ==
    analysisResult.kind = "returned" =>
        (analysisResult.should_update_preferences
            <=> 10 * analysisResult.overall_relevance > 4 * One)

\* A successful result with a relevance between 0.4 and 0.5 asks for the update
C17_Witness ==
    /\ analysisResult.kind = "returned"
    /\ 10 * analysisResult.overall_relevance > 4 * One
    /\ 10 * analysisResult.overall_relevance <= 5 * One
    /\ analysisResult.should_update_preferences

(***************************************************************************)
(* Repeated calls of foursquare_parameter_extractor.  Calls can run in     *)
(* different interpreter processes (API server, worker, a later run): the  *)
(* order of list(set(detected_categories)) follows the hash seed of the    *)
(* process.                                                                *)
(***************************************************************************)
MaxCalls == 2            \* extractor calls in one run

\* Two hash seeds that order a set of category ids differently
HashSeeds == {0, 1}

Reverse(list) == [i \in DOMAIN list |-> list[Len(list) + 1 - i]]

\* list(set(detected_categories)) in a process with the given hash seed
ListOfSet(ids, seed) ==
    LET listed == SelectSeq(CategoryIds, LAMBDA c : c \in ids)
    IN  IF seed = 0 THEN listed ELSE Reverse(listed)

\* The extractor's result with fsq_category_ids as the list it is
ExtractorCall(text, seed) ==
    LET result == FoursquareParameterExtractor(text)
    IN  [result EXCEPT !.foursquare_params.fsq_category_ids = ListOfSet(@, seed)]

Extract ==
    \E text \in Messages, seed \in HashSeeds :
        /\ Len(extraction) < MaxCalls
        /\ extraction' = Append(extraction,
               [text |-> text, seed |-> seed, result |-> ExtractorCall(text, seed)])
        /\ UNCHANGED <<gpVars, filterVars, scoreVars, analysisVars,
                       serviceVars, keywordVars, rankVars, groupVars>>

SpecExtract == Init /\ [][Extract]_vars

\* C18: two calls of the extractor on the same text return identical
\* keyword matches and an identical parameter bag (query, category ids,
\* price bounds, open_now, near, sort).
C18_Deterministic ==
    \A i, j \in DOMAIN extraction :
        extraction[i].text = extraction[j].text =>
            /\ extraction[i].result.raw_query_matches
                   = extraction[j].result.raw_query_matches
            /\ extraction[i].result.foursquare_params
                   = extraction[j].result.foursquare_params

(***************************************************************************)
(* generate_recommendations on two candidates that differ in distance only *)
(***************************************************************************)
NearDistance == 400
FarDistance == 6000

\* The candidate list: the restaurant at 400 m and at 6000 m, in either order
Candidates(restaurant, near_first) ==
    LET near_one == [restaurant EXCEPT !.distance = NearDistance]
        far_one == [restaurant EXCEPT !.distance = FarDistance]
    IN  IF near_first THEN <<near_one, far_one>> ELSE <<far_one, near_one>>

\* generate_recommendations: an exception of the scoring is logged and the
\* empty list returned
GenerateRecommendations(context, candidate_restaurants, group_preferences, user_profiles) ==
    LET outcomes == [i \in DOMAIN candidate_restaurants |->
                        CalculateComprehensiveScore(candidate_restaurants[i], context,
                                                    group_preferences, user_profiles)]
        scored_restaurants ==
            [i \in DOMAIN candidate_restaurants |->
                [restaurant |-> candidate_restaurants[i], score |-> outcomes[i].score]]
    IN  IF candidate_restaurants = <<>> THEN <<>>
        ELSE IF \E i \in DOMAIN outcomes : outcomes[i].kind = "AttributeError" THEN <<>>
        ELSE Prefix(ApplyDiversityFilter(Prefix(SortByScore(scored_restaurants), 50)), 20)

NotRanked == [called |-> FALSE, list |-> <<>>]

InitRank ==
    /\ rankInput \in [restaurant : Restaurants, near_first : BOOLEAN,
                      context : Contexts, group_preferences : GroupProfiles,
                      user_profiles : ProfileLists(1)]
    /\ ranking = NotRanked

Recommend ==
    /\ ~ranking.called
    /\ ranking' = [called |-> TRUE,
                   list |-> GenerateRecommendations(
                                rankInput.context,
                                Candidates(rankInput.restaurant, rankInput.near_first),
                                rankInput.group_preferences, rankInput.user_profiles)]
    /\ UNCHANGED <<rankInput, gpVars, filterVars, scoreVars, analysisVars,
                   serviceVars, keywordVars, extractVars, groupVars>>

InitRanking ==
    /\ InitGroup /\ IdleFilter /\ IdleScore /\ IdleAnalysis
    /\ IdleService /\ IdleKeywords /\ IdleExtract /\ InitRank /\ IdleGroup

SpecRank == InitRanking /\ [][Recommend]_vars

\* C19: of two candidates identical except for their distance, the one at
\* 400 m gets a strictly higher composite score than the one at 6000 m and
\* is ranked above it by generate_recommendations.
C19_NearRanksAboveFar ==
    ranking.called =>
        /\ Len(ranking.list) = 2
        /\ ranking.list[1].restaurant.distance = NearDistance
        /\ ranking.list[2].restaurant.distance = FarDistance
        /\ ranking.list[1].score > ranking.list[2].score

\* The restaurants the first pass of _apply_diversity_filter has chosen
FirstPassChosen == FirstPass(candidates, <<>>, {})

\* C20: given more than 10 candidates, the first pass of
\* _apply_diversity_filter selects at most one restaurant per combination
\* of (first two cuisines, price tier) and at most 15 restaurants.
C20_OnePerCombination ==
    (filtered /\ Len(candidates) > 10) =>
        /\ Len(FirstPassChosen) <= 15
        /\ \A i, j \in DOMAIN FirstPassChosen :
               ComboKey(FirstPassChosen[i].restaurant)
                   = ComboKey(FirstPassChosen[j].restaurant) => i = j

(***************************************************************************)
(* Ties of the price consensus (_aggregate_member_preferences)             *)
(***************************************************************************)
\* The prices of the list that no other price occurs more often than
ModeValues(prices) ==
    {v \in Range(prices) : \A w \in Range(prices) : Count(prices, w) <= Count(prices, v)}

\* The tied price whose first contributor comes first in the iteration of
\* member_contributions
FirstContributed(prices) ==
    prices[CHOOSE i \in DOMAIN prices :
               /\ prices[i] \in ModeValues(prices)
               /\ \A j \in 1..(i - 1) : prices[j] \notin ModeValues(prices)]

\* The smallest of the tied prices
SmallestTied(prices) ==
    CHOOSE v \in ModeValues(prices) : \A w \in ModeValues(prices) : v <= w

CollectedMins(g) == MinPrices(PriceRanges(g.member_contributions))
CollectedMaxs(g) == MaxPrices(PriceRanges(g.member_contributions))

\* C21 as stated: when several price minimums (maximums) are tied for most
\* frequent, the consensus is the tied value of the member that comes first
\* in the iteration order of member_contributions.
C21_TieToFirstMember ==
    /\ Cardinality(ModeValues(CollectedMins(gp))) > 1
           => gp.price_preferences.min_price = FirstContributed(CollectedMins(gp))
    /\ Cardinality(ModeValues(CollectedMaxs(gp))) > 1
           => gp.price_preferences.max_price = FirstContributed(CollectedMaxs(gp))

\* C21 amended: when several price minimums (maximums) are tied for most
\* frequent, the consensus is the smallest of the tied values, whichever
\* member contributed it.
C21_TieToSmallest ==
    /\ Cardinality(ModeValues(CollectedMins(gp))) > 1
           => gp.price_preferences.min_price = SmallestTied(CollectedMins(gp))
    /\ Cardinality(ModeValues(CollectedMaxs(gp))) > 1
           => gp.price_preferences.max_price = SmallestTied(CollectedMaxs(gp))

\* An upscale member joined before a budget member: minimums 3 and 1 are
\* tied and the consensus is (1, 2)
C21_Witness ==
    /\ CollectedMins(gp) = <<3, 1>>
    /\ CollectedMaxs(gp) = <<4, 2>>
    /\ gp.price_preferences = [min_price |-> 1, max_price |-> 2]

(***************************************************************************)
(* Frequency maps (_aggregate_member_preferences)                          *)
(***************************************************************************)
\* The members whose contribution mentions the term (holds the category id)
MembersMentioning(g, term) ==
    {i \in DOMAIN g.member_contributions :
        term \in Range(MemberQueries(g.member_contributions[i].prefs))}

MembersHolding(g, category) ==
    {i \in DOMAIN g.member_contributions :
        category \in Range(MemberCategories(g.member_contributions[i].prefs))}

\* C22: query_frequency[t] is the number of members whose contribution
\* mentions t and category_frequency[c] the number of members whose
\* contribution holds c, so no count exceeds the number of members.
C22_FrequencyCountsMembers ==
    /\ \A t \in DOMAIN gp.query_frequency :
           /\ gp.query_frequency[t] = Cardinality(MembersMentioning(gp, t))
           /\ gp.query_frequency[t] <= Len(gp.member_contributions)
    /\ \A c \in DOMAIN gp.category_frequency :
           /\ gp.category_frequency[c] = Cardinality(MembersHolding(gp, c))
           /\ gp.category_frequency[c] <= Len(gp.member_contributions)

(***************************************************************************)
(* foursquare_parameter_extractor on messages that name a dollar amount    *)
(***************************************************************************)
\* Messages with one "$<n>" token, with and without a price term
DollarMessages ==
    {<<"sushi", "under", d>> : d \in DOMAIN DollarAmount}
    \cup {<<"cheap", "thai", d>> : d \in DOMAIN DollarAmount}

ExtractPriced ==
    \E text \in DollarMessages :
        /\ Len(extraction) < MaxCalls
        /\ extraction' = Append(extraction,
               [text |-> text, seed |-> 0, result |-> ExtractorCall(text, 0)])
        /\ UNCHANGED <<gpVars, filterVars, scoreVars, analysisVars,
                       serviceVars, keywordVars, rankVars, groupVars>>

SpecPrice == Init /\ [][ExtractPriced]_vars

\* The price bounds the tiers give a dollar amount
TierBounds(n) ==
    IF n <= 20 THEN <<1, 1>> ELSE IF n <= 50 THEN <<1, 2>>
    ELSE IF n <= 150 THEN <<2, 3>> ELSE IF n <= 400 THEN <<3, 4>> ELSE <<4, 4>>

\* C23: for every message with a literal dollar amount $N, N a non-negative
\* integer, the extractor returns the price bounds (1,1) if N <= 20, (1,2)
\* if N <= 50, (2,3) if N <= 150, (3,4) if N <= 400 and (4,4) otherwise.
C23_DollarTiers ==
    \A i \in DOMAIN extraction :
        LET dollars == FindAll(extraction[i].text, DOMAIN DollarAmount)
            found == extraction[i].result.foursquare_params
        IN  dollars # <<>> =>
                <<found.min_price, found.max_price>>
                    = TierBounds(DollarAmount[dollars[1]])

(***************************************************************************)
(* GroupService.join_group and leave_group on one group                    *)
(*   (app/services/group_service.py).  The group was created by user 1:    *)
(*   create_group saves it with member_ids = [creator] and then fails in   *)
(*   create_default_group_preferences, which GroupPreferencesService does  *)
(*   not define, so no GroupPreferences document exists.  A call is split  *)
(*   where it awaits the database; a saved document overwrites every field *)
(*   of the stored one.                                                    *)
(***************************************************************************)
MaxGroupUsers == 3       \* users that call join_group and leave_group
MaxRequests == 3         \* join_group and leave_group calls in one run

GroupUsers == 1..MaxGroupUsers

\* A firebase id no User document has
UnknownUser == 0

\* Group.max_members (10 by default), scaled so that the users outnumber it
GroupCapacity == MaxGroupUsers - 1

\* member_ids.remove(uid): the first occurrence goes
RemoveFirst(member_ids, uid) ==
    LET k == CHOOSE i \in DOMAIN member_ids :
                 member_ids[i] = uid /\ \A j \in 1..(i - 1) : member_ids[j] # uid
    IN  SubSeq(member_ids, 1, k - 1) \o SubSeq(member_ids, k + 1, Len(member_ids))

\* join_group without the test of len(group.member_ids) against max_members
JoinUnlimited(member_ids, uid) ==
    IF uid \in Range(member_ids)
    THEN [pc |-> "ValueError", member_ids |-> member_ids]
    ELSE [pc |-> "saving", member_ids |-> Append(member_ids, uid)]

\* join_group between Group.find_one and group.save(): the two tests and
\* the append on the document in memory
JoinMember(member_ids, uid) ==
    IF uid \in Range(member_ids)
    THEN [pc |-> "ValueError", member_ids |-> member_ids]
    ELSE IF Len(member_ids) >= GroupCapacity
         THEN [pc |-> "ValueError", member_ids |-> member_ids]
         ELSE [pc |-> "saving", member_ids |-> Append(member_ids, uid)]

\* leave_group between Group.get and the write: the test, the remove and
\* the choice between delete() and save()
LeaveMember(member_ids, uid) ==
    IF uid \notin Range(member_ids)
    THEN [pc |-> "ValueError", member_ids |-> member_ids]
    ELSE LET left == RemoveFirst(member_ids, uid)
         IN  [pc |-> IF Len(left) = 0 THEN "deleting" ELSE "saving",
              member_ids |-> left]

InitGroupService ==
    /\ group = [exists |-> TRUE, member_ids |-> <<1>>]
    /\ requests = <<>>

\* join_group or leave_group up to User.find_one: ValueError("User not found")
\* when there is no such user
FindUser ==
    \E op \in {"join", "leave"}, uid \in GroupUsers \cup {UnknownUser} :
        /\ Len(requests) < MaxRequests
        /\ requests' = Append(requests,
               [op |-> op, uid |-> uid, member_ids |-> <<>>,
                pc |-> IF uid = UnknownUser THEN "ValueError" ELSE "user_found"])
        /\ UNCHANGED <<group, gpVars, filterVars, scoreVars, analysisVars,
                       serviceVars, keywordVars, extractVars, rankVars>>

\* ... Group.find_one (Group.get): ValueError when the group is gone, else
\* the call goes on with its copy of the document up to the next await
FindGroup ==
    \E r \in DOMAIN requests :
        /\ requests[r].pc = "user_found"
        /\ LET done == IF requests[r].op = "join"
                       THEN JoinMember(group.member_ids, requests[r].uid)
                       ELSE LeaveMember(group.member_ids, requests[r].uid)
           IN  requests' = [requests EXCEPT ![r] =
                   IF group.exists
                   THEN [@ EXCEPT !.pc = done.pc, !.member_ids = done.member_ids]
                   ELSE [@ EXCEPT !.pc = "ValueError"]]
        /\ UNCHANGED <<group, gpVars, filterVars, scoreVars, analysisVars,
                       serviceVars, keywordVars, extractVars, rankVars>>

\* ... await group.save().  join_group then fails in
\* preference_service.create_default_group_preferences (AttributeError: no
\* GroupPreferences is created or changed); leave_group adds its system
\* message and returns True without a call on the group's preferences.
\* Saving a document that another call has deleted either stores it again
\* or fails, depending on the database layer.
SaveGroup ==
    \E r \in DOMAIN requests, stored \in BOOLEAN :
        /\ requests[r].pc = "saving"
        /\ group.exists => stored
        /\ group' = IF stored
                    THEN [exists |-> TRUE, member_ids |-> requests[r].member_ids]
                    ELSE group
        /\ requests' = [requests EXCEPT ![r] =
               [@ EXCEPT !.member_ids = <<>>,
                         !.pc = IF ~stored THEN "DocumentNotFound"
                                ELSE IF requests[r].op = "join" THEN "AttributeError"
                                ELSE "returned"]]
        /\ UNCHANGED <<gpVars, filterVars, scoreVars, analysisVars,
                       serviceVars, keywordVars, extractVars, rankVars>>

\* ... await group.delete() when the last member has left
DeleteGroup ==
    \E r \in DOMAIN requests :
        /\ requests[r].pc = "deleting"
        /\ group' = [exists |-> FALSE, member_ids |-> <<>>]
        /\ requests' = [requests EXCEPT ![r] = [@ EXCEPT !.pc = "returned"]]
        /\ UNCHANGED <<gpVars, filterVars, scoreVars, analysisVars,
                       serviceVars, keywordVars, extractVars, rankVars>>

InitGroupCalls ==
    /\ InitGroup /\ IdleFilter /\ IdleScore /\ IdleAnalysis
    /\ IdleService /\ IdleKeywords /\ IdleExtract /\ IdleRank
    /\ InitGroupService

NextGroup == FindUser \/ FindGroup \/ SaveGroup \/ DeleteGroup

SpecGroup == InitGroupCalls /\ [][NextGroup]_vars

\* The calls that are between their read of the group and their write
Writing == {r \in DOMAIN requests : requests[r].pc \in {"user_found", "saving", "deleting"}}

\* The calls that have written the group
Written == {r \in DOMAIN requests : requests[r].pc \in {"AttributeError", "returned"}}

\* C24: a member's contribution is created in the group's GroupPreferences
\* when the member joins and deleted when the member leaves: once joins and
\* leaves have been carried out and none is under way, the keys of
\* member_contributions are exactly the group's current member ids.
C24_ContributionsFollowMembers ==
    (Writing = {} /\ Written # {} /\ group.exists) =>
        /\ db # <<>>
        /\ \A i \in DOMAIN db :
               Keys(db[i].member_contributions) = Range(group.member_ids)

\* C29: after any interleaving of join_group and leave_group calls on one
\* group, concurrent ones included, group.member_ids holds no user id twice
\* and never more than max_members entries.
C29_NoDuplicateWithinCapacity ==
    group.exists =>
        /\ \A i, j \in DOMAIN group.member_ids :
               group.member_ids[i] = group.member_ids[j] => i = j
        /\ Len(group.member_ids) <= GroupCapacity

\* A join has filled the group while another join, which read the group
\* before that save, is about to save its own copy
C29_Witness ==
    /\ group.exists
    /\ Len(group.member_ids) = GroupCapacity
    /\ \E r, q \in DOMAIN requests :
           /\ requests[r].op = "join" /\ requests[r].pc = "AttributeError"
           /\ requests[r].uid \in Range(group.member_ids)
           /\ requests[q].op = "join" /\ requests[q].pc = "saving"
           /\ requests[q].uid \notin Range(group.member_ids)
           /\ requests[r].uid \notin Range(requests[q].member_ids)

(***************************************************************************)
(* A message analysis applied for a member without a contribution          *)
(***************************************************************************)
\* The analyses with keywords above the confidence threshold whose
\* _update_user_preferences_from_analysis call has returned
Applied ==
    {m \in MessageIds :
        /\ updates[m].pc \notin {"none", "pending"}
        /\ HasKeywords(updates[m].payload)
        /\ updates[m].payload.overall_relevance > MinConfidenceThreshold}

\* C25: applying a message analysis for a member, also one who has no entry
\* in the group's contributions, does not fail and does not drop the
\* update: afterwards the member has an entry in the stored contributions
\* and what was learned from the message is merged into it.
C25_CreateIfAbsent ==
    \A m \in Applied :
        /\ updates[m].pc # "error_logged"
        /\ \E i \in DOMAIN db : Author \in Keys(db[i].member_contributions)
        /\ KeywordsOf(updates[m].payload) \subseteq StoredLearnedKeywords(db, Author)

\* C26: after any sequence of add_member_preferences,
\* remove_member_preferences and update_from_llm_message calls, member_count
\* equals the number of entries of member_contributions.
C26_MemberCountIsEntries == gp.member_count = Len(gp.member_contributions)

(***************************************************************************)
(* Price consensus over budget tiers and the price ranges the extractor    *)
(* can produce                                                             *)
(***************************************************************************)
MaxRanges == 2           \* messages with a price range applied in a run

\* The (min_price, max_price) pairs foursquare_parameter_extractor sets:
\* the values of price_patterns and the levels of a dollar amount
ExtractorBounds ==
    {PricePatterns[i].value : i \in DOMAIN PricePatterns}
    \cup {AmountPrices(DollarAmount[d]) : d \in DOMAIN DollarAmount}

\* update_from_llm_message with an analysis that carries a price range only.
\* The message is of the member that joined last: the aggregation reads the
\* contributions, not the order in which they were written
LearnRange ==
    \E uid \in Members, bounds \in ExtractorBounds :
        /\ gp.member_contributions # <<>>
        /\ uid = gp.member_contributions[Len(gp.member_contributions)].uid
        /\ gp.total_group_interactions < MaxRanges
        /\ gp' = UpdateFromLlmMessage(gp, uid,
               [api_ready |-> TRUE, overall_relevance |-> 70,
                foursquare_parameters |->
                    [NoParams EXCEPT !.min_price = bounds[1], !.max_price = bounds[2]]])
        /\ UNCHANGED <<searchParams, filterVars, scoreVars, analysisVars,
                       serviceVars, keywordVars, extractVars, rankVars, groupVars>>

NextRanges == AddTierMember \/ LearnRange

SpecRanges == Init /\ [][NextRanges]_vars

\* C27: whenever price_preferences holds both min_price and max_price after
\* a recompute, min_price <= max_price, for member contributions whose price
\* ranges come from the budget tiers and from ranges the extractor produced.
C27_MinAtMostMax ==
    (gp.price_preferences.min_price # 0 /\ gp.price_preferences.max_price # 0)
        => gp.price_preferences.min_price <= gp.price_preferences.max_price

\* A budget member and an upscale member who learned (1,1): the minimums
\* 1, 3, 1 and the maximums 2, 4, 1 give the consensus (1, 1)
C27_Witness ==
    /\ CollectedMins(gp) = <<1, 3, 1>>
    /\ CollectedMaxs(gp) = <<2, 4, 1>>
    /\ gp.price_preferences = [min_price |-> 1, max_price |-> 1]

(***************************************************************************)
(* The worker tasks that process the result of analyze_message             *)
(*   (_analyze_single_message_async, _analyze_new_messages_async and       *)
(*   _analyze_group_preferences_async of                                   *)
(*   background_worker/tasks/message_analysis.py)                          *)
(***************************************************************************)
WorkerTasks ==
    {"_analyze_single_message_async", "_analyze_new_messages_async",
     "_analyze_group_preferences_async"}

\* a worker that applies every analysis it receives
AlwaysProcess(analysis_result) == TRUE

\* if analysis_result.get("should_update_preferences", False)
ShouldProcess(analysis_result) ==
    /\ "should_update_preferences" \in DOMAIN analysis_result
    /\ analysis_result.should_update_preferences

\* What _update_user_preferences_from_analysis reads from an analyzer result:
\* the result has neither "extracted_keywords" nor "preferences", and the
\* confidence defaults to 0.7 when there are no confidence_scores
AnalysisPayload(analysis_result) ==
    [extracted_keywords |-> NoKeywords,
     preferences |-> FALSE,
     overall_relevance |->
         IF "confidence_scores" \in DOMAIN analysis_result
         THEN analysis_result.confidence_scores.overall_relevance
         ELSE (7 * One) \div 10]

\* The task has the result of analyze_message for its message and processes
\* it: _update_user_preferences_from_analysis is called when the result
\* asks for it
ProcessResult ==
    \E task \in WorkerTasks :
        /\ wfNode = "done"
        /\ analysisResult.kind = "returned"
        /\ updates = <<>>
        /\ LET requested == ShouldProcess(analysisResult)
               applied == UpdateUserPreferencesFromAnalysis(
                              db, Author, AnalysisPayload(analysisResult))
           IN  /\ db' = IF requested THEN applied.collection ELSE db
               /\ updates' = <<[task |-> task, requested |-> requested,
                                pc |-> IF requested THEN applied.pc ELSE "not_called"]>>
        /\ UNCHANGED <<uniqueIndex, joins, analysisVars, gpVars, filterVars,
                       scoreVars, keywordVars, extractVars, rankVars, groupVars>>

NextWorker == NextAnalysis \/ ProcessResult

SpecWorker == InitAnalysis /\ [][NextWorker]_vars

\* C28: when analyze_message returned the fallback record for a message,
\* the task that processes the message performs no preference update:
\* _update_user_preferences_from_analysis is not called and no
\* GroupPreferences document is created or changed.
C28_FallbackUpdatesNothing ==
    (updates # <<>> /\ analysisResult.analysis_version = "fallback_v1.0") =>
        /\ \A i \in DOMAIN updates :
               ~updates[i].requested /\ updates[i].pc = "not_called"
        /\ db = <<>>

\* A stage raised, analyze_message returned the fallback record and a task
\* has processed it
C28_Witness ==
    /\ updates # <<>>
    /\ raisedBy # ""
    /\ analysisResult.kind = "returned"
    /\ analysisResult.analysis_version = "fallback_v1.0"
    /\ ~analysisResult.should_update_preferences

(***************************************************************************)
(* update_from_llm_message with an analysis that is not api_ready          *)
(***************************************************************************)
\* Analysis results whose api_ready is false or absent, with and without
\* parameters
NotReadyResults == {[a EXCEPT !.api_ready = FALSE] : a \in AnalysisResults}

\* C30: update_from_llm_message with an analysis result whose api_ready is
\* false or absent leaves the whole GroupPreferences unchanged: the
\* contributions, member_count, the aggregated fields, the counters and the
\* metadata.
C30_NotReadyChangesNothing ==
    \A uid \in Users, a \in NotReadyResults : UpdateFromLlmMessage(gp, uid, a) = gp

\* A document with one member that chat learning has updated: a result that
\* is not api_ready changes nothing, for the member and for a user without a
\* contribution
C30_Witness ==
    /\ Len(gp.member_contributions) = 1
    /\ gp.is_llm_updated
    /\ gp.total_group_interactions = 1
    /\ \E uid \in Users : uid \notin Keys(gp.member_contributions)
    /\ \A uid \in Users, a \in NotReadyResults : UpdateFromLlmMessage(gp, uid, a) = gp

====
